---- MODULE Spec2Model ----
(***************************************************************************)
(* BRAW render farm: the SQLite coordination store (farm_db.py), the       *)
(* control API (farm_core_v2.py) and the worker loop (farm_ui_v2.py,       *)
(* WorkerThreadV2.run), as a state machine.                                *)
(*                                                                         *)
(* Store operations that run inside `with self.transaction()` (BEGIN       *)
(* IMMEDIATE ... COMMIT) or that are a single SQL statement are one atomic *)
(* action.  complete_frames runs three statements on an autocommit         *)
(* connection (isolation_level=None), so it is three actions: other hosts  *)
(* may run between its statements.                                         *)
(*                                                                         *)
(* Time is the wall clock in seconds, observed every TimeStep seconds.     *)
(* The column completed_at is written and never read; it is left out.      *)
(***************************************************************************)
EXTENDS Integers, Sequences, FiniteSets, TLC

VARIABLES
    now,          \* datetime.now(), in seconds
    jobs,         \* table jobs:   job_id -> row
    frames,       \* table frames: <<job_id, frame_idx, eye>> -> row
    workers,      \* table workers: worker_id -> row
    alive,        \* worker process is running
    pc,           \* position of WorkerThreadV2.run
    futures,      \* run()'s dict `futures`: the ranges in flight, in insertion order
    cur,          \* the range complete_frames is working on
    eff,          \* run()'s effective_workers
    batch_size,   \* run()'s batch_size (settings.batch_frame_size)
    ops,          \* number of operator commands issued so far
    nclaims,      \* number of ranges handed out so far, where a specification counts them
    pools,        \* table pools: the set of pool_id
    current_pool_id,  \* FarmManagerV2.current_pool_id of each worker host
    reply,        \* the last call of the control API that returns a value, and the value
    dp,           \* the delete_pool call in progress: its pool and its next statement
    is_running,   \* WorkerThreadV2.is_running of each worker thread
    hard_stop,    \* hard_stop_worker has killed the converters of this worker
    conv,         \* the converters that have ended: in-flight range and outcome
    total_success, \* run()'s total_success: frames of the ranges reconciled as success
    job_completed_signal, \* job_id -> how often job_completed_signal was emitted for it
    arg,          \* the arguments of the function called last
    ret           \* what it returned

vars == <<now, jobs, frames, workers, alive, pc, futures, cur, eff, batch_size, ops, nclaims,
          pools, current_pool_id, reply, dp, is_running, hard_stop, conv, total_success,
          job_completed_signal, arg, ret>>

\* The arguments and the result of the function called last.
io == <<arg, ret>>

\* The stop flags, the ended converters, the success count and the emitted signals of
\* the worker threads.
thr == <<is_running, hard_stop, conv, total_success, job_completed_signal>>

\* The pools, the hosts' pool membership, the last reply and the delete_pool call.
ctl == <<pools, current_pool_id, reply, dp>>

-----------------------------------------------------------------------------
(* Program constants *)

CLAIM_TIMEOUT_SEC == 180
HEARTBEAT_TIMEOUT_SEC == 300
BATCH_CLAIM_TIMEOUT_SEC == 600

(* Bounds of the model *)

MaxFrame == 2          \* job j1 has the frames 0..MaxFrame
MaxBatch == 2          \* settings.batch_frame_size ranges over 1..MaxBatch
ParallelWorkers == 1   \* parallel_workers of every worker
MaxTime == 360         \* the clock stops here
MaxRetry == 1          \* a range fails only while its rows have fewer retries
MaxOps == 1            \* operator commands per behaviour of Spec
MaxToggles == 2        \* exclude/pause/activate commands per behaviour of SpecPause
MaxClaims == 2         \* ranges handed out per behaviour of Spec and SpecPause
MaxNotify == 2         \* emissions of job_completed_signal counted per job

\* The clock is observed every TimeStep seconds: a claim or heartbeat made at one
\* observation is past both timeouts at the next, and a converter started at one is
\* still inside its timeout (BATCH_CLAIM_TIMEOUT_SEC at the least) at the next.
TimeStep == 2 * CLAIM_TIMEOUT_SEC

NULL == "NULL"
NoTime == 0 - 1

Workers == {"w1", "w2"}
PoolIds == {"default", "poolB"}
JobIds == {"j1", "j2"}
Eyes == {"left", "right", "sbs"}
JobStatuses == {"pending", "in_progress", "completed", "excluded", "paused", "failed"}
Priorities == {50, 60}
BatchSizes == 1..MaxBatch

\* What an operator submits under each job id: the frame range and eyes, and the
\* pools and priorities the submission may name.
JobDef ==
    [j1 |-> [start_frame |-> 0, end_frame |-> MaxFrame, eyes |-> <<"left">>,
             pools |-> {"default"}, priorities |-> {50}],
     j2 |-> [start_frame |-> 0, end_frame |-> 0, eyes |-> <<"sbs", "left">>,
             pools |-> {"default"}, priorities |-> {60}],
     j0 |-> [start_frame |-> MaxFrame, end_frame |-> MaxFrame - 1, eyes |-> <<"left">>,
             pools |-> {"default"}, priorities |-> {50}]]

\* The job ids of the submissions with pools: a job with frames, and one whose start
\* frame is past its end frame.
AdminJobIds == {"j1", "j0"}

\* No call has returned yet.
NoReply == [call |-> NULL, value |-> NULL]

\* No delete_pool call is in progress.
NoDelete == [pool_id |-> NULL, at |-> "none"]

NoRange == [job_id |-> NULL, start_frame |-> 0, end_frame |-> 0, eye |-> NULL]

-----------------------------------------------------------------------------
(* Helpers *)

RemoveAt(s, i) == [k \in 1..(Len(s) - 1) |-> IF k < i THEN s[k] ELSE s[k + 1]]

Min(a, b) == IF a < b THEN a ELSE b

Max(a, b) == IF a > b THEN a ELSE b

\* Text order of the eye column (SQLite BINARY collation): 'left' < 'right' < 'sbs'.
\* The ranges in the futures of worker w.
InFlightOf(fu, w) == {fu[w][i] : i \in 1..Len(fu[w])}

EyeRank(e) == CASE e = "left" -> 1 [] e = "right" -> 2 [] e = "sbs" -> 3

\* The rows of one job.
RowsOf(F, j) == {k \in DOMAIN F : k[1] = j}

\* The rows a frame range names: job_id = ? AND eye = ? AND frame_idx BETWEEN ? AND ?
InRange(k, r) ==
    /\ k[1] = r.job_id
    /\ k[3] = r.eye
    /\ r.start_frame <= k[2]
    /\ k[2] <= r.end_frame

-----------------------------------------------------------------------------
(* The store: farm_db.py *)

\* A frame row as submit_job inserts it.
NewFrame == [status |-> "pending", worker_id |-> NULL, claimed_at |-> NoTime, retry_count |-> 0]

\* The frame rows submit_job derives from a job: one per frame index and eye.
FrameKeys(j) ==
    {<<j, i, JobDef[j].eyes[e]>> :
        i \in JobDef[j].start_frame..JobDef[j].end_frame, e \in 1..Len(JobDef[j].eyes)}

\* A variant that leaves the row as it is.
KeepRow(row) == row

\* A variant that also sets retry_count = 0.
ToPendingZeroRetry(row) ==
    [row EXCEPT !.status = "pending", !.worker_id = NULL, !.claimed_at = NoTime, !.retry_count = 0]

\* UPDATE frames SET status = 'pending', worker_id = NULL, claimed_at = NULL
ToPending(row) == [row EXCEPT !.status = "pending", !.worker_id = NULL, !.claimed_at = NoTime]

\* claim_frames, reclaim step: WHERE status = 'claimed' AND claimed_at < now - CLAIM_TIMEOUT_SEC
Expired(row, t) == row.status = "claimed" /\ row.claimed_at < t - CLAIM_TIMEOUT_SEC

Reclaim(F, t) == [k \in DOMAIN F |-> IF Expired(F[k], t) THEN ToPending(F[k]) ELSE F[k]]

\* A variant whose filter names only 'excluded' and 'completed'.
CandidateUnlessExcluded(J, j, pool) ==
    /\ j \in DOMAIN J
    /\ J[j].pool_id = pool
    /\ J[j].status \notin {"excluded", "completed"}

\* WHERE j.pool_id = ? AND j.status NOT IN ('excluded', 'paused', 'completed')
Candidate(J, j, pool) ==
    /\ j \in DOMAIN J
    /\ J[j].pool_id = pool
    /\ J[j].status \notin {"excluded", "paused", "completed"}

\* The rows the selection query of claim_frames ranges over.
PendingRows(F, J, pool) == {k \in DOMAIN F : Candidate(J, k[1], pool) /\ F[k].status = "pending"}

\* A variant that orders by creation time before priority.
RowBeforeByAge(J, a, b) ==
    \/ J[a[1]].created_at < J[b[1]].created_at
    \/ /\ J[a[1]].created_at = J[b[1]].created_at
       /\ \/ J[a[1]].priority > J[b[1]].priority
          \/ /\ J[a[1]].priority = J[b[1]].priority
             /\ \/ a[2] < b[2]
                \/ a[2] = b[2] /\ EyeRank(a[3]) < EyeRank(b[3])

\* ORDER BY j.priority DESC, j.created_at, f.frame_idx, f.eye
RowBefore(J, a, b) ==
    \/ J[a[1]].priority > J[b[1]].priority
    \/ /\ J[a[1]].priority = J[b[1]].priority
       /\ \/ J[a[1]].created_at < J[b[1]].created_at
          \/ /\ J[a[1]].created_at = J[b[1]].created_at
             /\ \/ a[2] < b[2]
                \/ a[2] = b[2] /\ EyeRank(a[3]) < EyeRank(b[3])

\* LIMIT 1: the rows that may come first (several when two jobs tie).
FirstRows(F, J, pool) ==
    {k \in PendingRows(F, J, pool) : \A o \in PendingRows(F, J, pool) : ~RowBefore(J, o, k)}

\* claim_frames, range query: the first batch pending frame indexes >= start of the
\* job and eye (WHERE status = 'pending' AND frame_idx >= ? ORDER BY frame_idx LIMIT ?).
PendingFrom(F, j, eye, start) ==
    {k[2] : k \in {x \in DOMAIN F : x[1] = j /\ x[3] = eye /\ x[2] >= start /\ F[x].status = "pending"}}

FramesToClaim(F, j, eye, start, batch) ==
    {i \in PendingFrom(F, j, eye, start) :
        Cardinality({i2 \in PendingFrom(F, j, eye, start) : i2 < i}) < batch}

\* frame_indices[-1]
LastIndex(S) == CHOOSE i \in S : \A i2 \in S : i2 <= i

\* A variant that marks only the first row of the range.
ClaimRowsFirstOnly(F, j, eye, idx, w, t) ==
    [k \in DOMAIN F |->
        IF k[1] = j /\ k[3] = eye /\ k[2] \in idx /\ (\A i \in idx : k[2] <= i)
        THEN [F[k] EXCEPT !.status = "claimed", !.worker_id = w, !.claimed_at = t]
        ELSE F[k]]

\* A variant that does not write claimed_at.
ClaimRowsNoTime(F, j, eye, idx, w, t) ==
    [k \in DOMAIN F |->
        IF k[1] = j /\ k[3] = eye /\ k[2] \in idx
        THEN [F[k] EXCEPT !.status = "claimed", !.worker_id = w]
        ELSE F[k]]

\* UPDATE frames SET status = 'claimed', worker_id = ?, claimed_at = ? WHERE ... frame_idx IN (...)
ClaimRows(F, j, eye, idx, w, t) ==
    [k \in DOMAIN F |->
        IF k[1] = j /\ k[3] = eye /\ k[2] \in idx
        THEN [F[k] EXCEPT !.status = "claimed", !.worker_id = w, !.claimed_at = t]
        ELSE F[k]]

\* UPDATE jobs SET status = 'in_progress' WHERE job_id = ? AND status = 'pending'
StartJob(J, j) ==
    [x \in DOMAIN J |->
        IF x = j /\ J[x].status = "pending" THEN [J[x] EXCEPT !.status = "in_progress"] ELSE J[x]]

\* The tuple claim_frames returns for the first row k.
ClaimResult(F, k, batch) ==
    [job_id |-> k[1], start_frame |-> k[2],
     end_frame |-> LastIndex(FramesToClaim(F, k[1], k[3], k[2], batch)), eye |-> k[3]]

\* A variant that completes only the rows assigned to the caller (AND worker_id = ?).
CompleteRowsOwn(F, r, w) ==
    [k \in DOMAIN F |->
        IF InRange(k, r) /\ F[k].status \in {"claimed", "pending"} /\ F[k].worker_id = w
        THEN [F[k] EXCEPT !.status = "completed"]
        ELSE F[k]]

\* complete_frames, first statement: rows of the range with status IN ('claimed', 'pending').
CompleteRows(F, r, w) ==
    [k \in DOMAIN F |->
        IF InRange(k, r) /\ F[k].status \in {"claimed", "pending"}
        THEN [F[k] EXCEPT !.status = "completed"]
        ELSE F[k]]

\* complete_frames, second statement: SELECT COUNT(*) ... WHERE job_id = ? AND status != 'completed'
Remaining(F, j) == Cardinality({k \in RowsOf(F, j) : F[k].status # "completed"})

\* A variant that writes the status only of a job in progress.
set_job_status_in_progress(J, j, s) ==
    [x \in DOMAIN J |->
        IF x = j /\ J[x].status = "in_progress" THEN [J[x] EXCEPT !.status = s] ELSE J[x]]

\* A variant without the WHERE clause: every job gets the status.
set_job_status_all(J, j, s) == [x \in DOMAIN J |-> [J[x] EXCEPT !.status = s]]

\* UPDATE jobs SET status = ? WHERE job_id = ?
set_job_status(J, j, s) == [x \in DOMAIN J |-> IF x = j THEN [J[x] EXCEPT !.status = s] ELSE J[x]]

\* complete_frames as a whole, when no other statement runs in between: the rows
\* update, the count, and the job status when nothing remains.
complete_frames(F, J, r, w) ==
    LET F2 == CompleteRows(F, r, w)
    IN [frames |-> F2,
        jobs |-> IF Remaining(F2, r.job_id) = 0 THEN set_job_status(J, r.job_id, "completed") ELSE J]

\* release_frames: rows of the range WHERE worker_id = ?
\* A variant of release_frames whose WHERE clause does not name the worker.
ReleaseRowsAnyWorker(F, r, w) ==
    [k \in DOMAIN F |->
        IF InRange(k, r)
        THEN [ToPending(F[k]) EXCEPT !.retry_count = F[k].retry_count + 1]
        ELSE F[k]]

ReleaseRows(F, r, w) ==
    [k \in DOMAIN F |->
        IF InRange(k, r) /\ F[k].worker_id = w
        THEN [ToPending(F[k]) EXCEPT !.retry_count = F[k].retry_count + 1]
        ELSE F[k]]

\* A variant of reset_job that leaves worker_id as it is.
ResetRowsKeepWorker(F, j) ==
    [k \in DOMAIN F |-> IF k[1] = j THEN [NewFrame EXCEPT !.worker_id = F[k].worker_id] ELSE F[k]]

\* reset_job: every row of the job
ResetRows(F, j) == [k \in DOMAIN F |-> IF k[1] = j THEN NewFrame ELSE F[k]]

\* get_job_progress: the number of the job's rows in each status, and their sum
CountStatus(F, j, st) == Cardinality({k \in RowsOf(F, j) : F[k].status = st})

get_job_progress(F, j) ==
    [pending |-> CountStatus(F, j, "pending"),
     claimed |-> CountStatus(F, j, "claimed"),
     completed |-> CountStatus(F, j, "completed"),
     failed |-> CountStatus(F, j, "failed"),
     total |-> CountStatus(F, j, "pending") + CountStatus(F, j, "claimed")
               + CountStatus(F, j, "completed") + CountStatus(F, j, "failed")]

\* job_completed_signal.emit(job_id): one more emission for job j, counted up to
\* MaxNotify.
Emit(S, j) ==
    [x \in DOMAIN S \cup {j} |->
        IF x = j THEN Min((IF j \in DOMAIN S THEN S[j] ELSE 0) + 1, MaxNotify) ELSE S[x]]

\* run, lines 430-436: after a done future is reconciled, get_job_progress, and the
\* signal is emitted if completed >= total and total > 0.
EmitIfCompleted(S, F, j) ==
    IF get_job_progress(F, j).completed >= get_job_progress(F, j).total
       /\ get_job_progress(F, j).total > 0
    THEN Emit(S, j)
    ELSE S

\* get_pending_frame_count
get_pending_frame_count(F, J, pool) == Cardinality(PendingRows(F, J, pool))

\* cleanup_offline_workers: workers WHERE last_heartbeat < now - HEARTBEAT_TIMEOUT_SEC
OfflineWorkers(W, t) == {w \in DOMAIN W : W[w].last_heartbeat < t - HEARTBEAT_TIMEOUT_SEC}

\* A variant whose UPDATE does not name the status.
CleanupRowsAnyStatus(F, off) ==
    [k \in DOMAIN F |-> IF F[k].worker_id \in off THEN ToPending(F[k]) ELSE F[k]]

\* cleanup_offline_workers: UPDATE frames ... WHERE worker_id = ? AND status = 'claimed'
CleanupRows(F, off) ==
    [k \in DOMAIN F |->
        IF F[k].worker_id \in off /\ F[k].status = "claimed" THEN ToPending(F[k]) ELSE F[k]]

\* cleanup_offline_workers: UPDATE workers SET status = 'offline' for each of them
MarkOffline(W, off) == [w \in DOMAIN W |-> IF w \in off THEN [W[w] EXCEPT !.status = "offline"] ELSE W[w]]

\* cleanup_offline_workers as a whole (one transaction).
cleanup_offline_workers(F, W, t) ==
    [frames |-> CleanupRows(F, OfflineWorkers(W, t)), workers |-> MarkOffline(W, OfflineWorkers(W, t))]

\* update_heartbeat: UPDATE workers SET last_heartbeat = ?, status = ?, frames_completed = ?
update_heartbeat(W, w, t, st, fc) ==
    [W EXCEPT ![w].last_heartbeat = t, ![w].status = st, ![w].frames_completed = fc]

\* FarmManagerV2.update_heartbeat(status): frames_completed takes its default, 0.
Heartbeat(W, w, t, st) == update_heartbeat(W, w, t, st, 0)

\* The worker row register_worker writes (FarmManagerV2._register_worker).
NewWorker(pool, t) ==
    [last_heartbeat |-> t, status |-> "idle", pool_id |-> pool, frames_completed |-> 0]

\* set_job_priority clamps: max(0, min(100, priority))
ClampPriority(p) == Max(0, Min(100, p))

-----------------------------------------------------------------------------
(* Initial state: an initialised store with no job, every worker registered
   (FarmManagerV2.__init__) and its loop about to start its first iteration. *)

InitState ==
    /\ now = 0
    /\ jobs = <<>>
    /\ frames = <<>>
    /\ workers = [w \in Workers |-> NewWorker("default", 0)]
    /\ alive = [w \in Workers |-> TRUE]
    /\ pc = [w \in Workers |-> "start"]
    /\ futures = [w \in Workers |-> <<>>]
    /\ cur = [w \in Workers |-> NoRange]
    /\ eff = [w \in Workers |-> 0]
    /\ batch_size = [w \in Workers |-> 0]
    /\ ops = 0
    /\ nclaims = 0
    /\ pools = {"default"}
    /\ current_pool_id = [w \in Workers |-> "default"]
    /\ reply = NoReply
    /\ dp = NoDelete
    /\ is_running = [w \in Workers |-> TRUE]
    /\ hard_stop = [w \in Workers |-> FALSE]
    /\ conv = [w \in Workers |-> {}]
    /\ total_success = [w \in Workers |-> 0]
    /\ job_completed_signal = <<>>

\* No function has been called.
Init ==
    /\ InitState
    /\ arg = NULL
    /\ ret = NULL

workerVars == <<alive, pc, futures, cur, eff, batch_size, thr>>

-----------------------------------------------------------------------------
(* The clock *)

Tick ==
    /\ now + TimeStep <= MaxTime
    /\ now' = now + TimeStep
    /\ UNCHANGED <<jobs, frames, workers, workerVars, ops, nclaims, ctl, thr, io>>

-----------------------------------------------------------------------------
(* Control API: farm_core_v2.py over farm_db.py *)

\* submit_job: the job row and its pending frame rows, in one transaction.
SubmitJob(j, pool, prio) ==
    /\ j \notin DOMAIN jobs
    /\ jobs' = [x \in DOMAIN jobs \cup {j} |->
                  IF x = j
                  THEN [pool_id |-> pool, status |-> "pending", priority |-> prio, created_at |-> now]
                  ELSE jobs[x]]
    /\ frames' = [k \in DOMAIN frames \cup FrameKeys(j) |->
                    IF k \in FrameKeys(j) THEN NewFrame ELSE frames[k]]
    /\ UNCHANGED <<now, workers, workerVars, ops, nclaims, ctl, thr, io>>

\* An operator command on an existing job, the n-th at most.
Command(j, n) ==
    /\ j \in DOMAIN jobs
    /\ ops < n
    /\ ops' = ops + 1
    /\ UNCHANGED <<now, workers, workerVars, nclaims, ctl, thr, io>>

SetJobStatus(j, s, n) ==
    /\ Command(j, n)
    /\ jobs' = set_job_status(jobs, j, s)
    /\ UNCHANGED frames

ExcludeJob(j, n) ==
    /\ Command(j, n)
    /\ jobs' = set_job_status(jobs, j, "excluded")
    /\ UNCHANGED frames

ActivateJob(j, n) ==
    /\ Command(j, n)
    /\ jobs' = set_job_status(jobs, j, "pending")
    /\ UNCHANGED frames

PauseJob(j, n) ==
    /\ Command(j, n)
    /\ jobs' = set_job_status(jobs, j, "paused")
    /\ UNCHANGED frames

SetJobPriority(j, p, n) ==
    /\ Command(j, n)
    /\ jobs' = [jobs EXCEPT ![j].priority = ClampPriority(p)]
    /\ UNCHANGED frames

MoveJobToPool(j, pool, n) ==
    /\ Command(j, n)
    /\ jobs' = [jobs EXCEPT ![j].pool_id = pool]
    /\ UNCHANGED frames

ResetJob(j, n) ==
    /\ Command(j, n)
    /\ frames' = ResetRows(frames, j)
    /\ jobs' = set_job_status(jobs, j, "pending")

\* FarmDatabase.submit_job: the rows after the transaction, and what it returns; an
\* IntegrityError (the job_id exists) rolls the transaction back and returns False.
submit_job(J, F, j, pool, prio, t) ==
    IF j \in DOMAIN J
    THEN [ok |-> FALSE, jobs |-> J, frames |-> F]
    ELSE [ok |-> TRUE,
          jobs |-> [x \in DOMAIN J \cup {j} |->
                      IF x = j
                      THEN [pool_id |-> pool, status |-> "pending", priority |-> prio, created_at |-> t]
                      ELSE J[x]],
          frames |-> [k \in DOMAIN F \cup FrameKeys(j) |->
                        IF k \in FrameKeys(j) THEN NewFrame ELSE F[k]]]

\* FarmManagerV2.submit_job on host h with no pool named: the job goes to the host's
\* current pool, the store's result is dropped and the job id is returned.
FarmSubmitJob(h, j, prio) ==
    /\ jobs' = submit_job(jobs, frames, j, current_pool_id[h], prio, now).jobs
    /\ frames' = submit_job(jobs, frames, j, current_pool_id[h], prio, now).frames
    /\ reply' = [call |-> "submit_job", value |-> j]
    /\ UNCHANGED <<now, workers, workerVars, ops, nclaims, pools, current_pool_id, dp, io>>

\* create_pool: INSERT INTO pools; False when the pool_id exists.
CreatePool(p) ==
    /\ pools' = pools \cup {p}
    /\ reply' = [call |-> "create_pool", value |-> IF p \in pools THEN "False" ELSE "True"]
    /\ UNCHANGED <<now, jobs, frames, workers, workerVars, ops, nclaims, current_pool_id, dp, io>>

\* A variant that takes no pool for the default pool.
NoPoolIsDefault(p) == FALSE

\* delete_pool: if pool_id == 'default': return False
IsDefaultPool(p) == p = "default"

\* delete_pool, up to its first statement: the refusal for the default pool, or
\* UPDATE jobs SET pool_id = 'default' WHERE pool_id = ?
DeletePoolJobs(p) ==
    /\ dp = NoDelete
    /\ IF IsDefaultPool(p)
       THEN /\ reply' = [call |-> "delete_pool", value |-> "False"]
            /\ UNCHANGED <<jobs, dp>>
       ELSE /\ jobs' = [j \in DOMAIN jobs |->
                         IF jobs[j].pool_id = p THEN [jobs[j] EXCEPT !.pool_id = "default"] ELSE jobs[j]]
            /\ dp' = [pool_id |-> p, at |-> "workers"]
            /\ UNCHANGED reply
    /\ UNCHANGED <<now, frames, workers, workerVars, ops, nclaims, pools, current_pool_id, io>>

\* delete_pool, second statement: UPDATE workers SET pool_id = 'default' WHERE pool_id = ?
DeletePoolWorkers ==
    /\ dp.at = "workers"
    /\ workers' = [w \in DOMAIN workers |->
                     IF workers[w].pool_id = dp.pool_id
                     THEN [workers[w] EXCEPT !.pool_id = "default"]
                     ELSE workers[w]]
    /\ dp' = [dp EXCEPT !.at = "row"]
    /\ UNCHANGED <<now, jobs, frames, workerVars, ops, nclaims, pools, current_pool_id, reply, io>>

\* delete_pool, third statement: DELETE FROM pools WHERE pool_id = ?; return True
DeletePoolRow ==
    /\ dp.at = "row"
    /\ pools' = pools \ {dp.pool_id}
    /\ reply' = [call |-> "delete_pool", value |-> "True"]
    /\ dp' = NoDelete
    /\ UNCHANGED <<now, jobs, frames, workers, workerVars, ops, nclaims, current_pool_id, io>>

\* FarmManagerV2.set_pool on host w: current_pool_id, and the worker row written again
\* (register_worker's ON CONFLICT clause leaves frames_completed as it is).
SetPool(w, p) ==
    /\ current_pool_id' = [current_pool_id EXCEPT ![w] = p]
    /\ workers' = [workers EXCEPT
                      ![w] = [NewWorker(p, now) EXCEPT !.frames_completed = workers[w].frames_completed]]
    /\ UNCHANGED <<now, jobs, frames, workerVars, ops, nclaims, pools, reply, dp, io>>

\* A variant of delete_job that deletes no frame row.
KeepFrames(F, j) == F

\* delete_job: DELETE FROM frames WHERE job_id = ?
DeleteFrames(F, j) == [k \in DOMAIN F \ RowsOf(F, j) |-> F[k]]

\* delete_job: both deletions in one transaction.
DeleteJob(j, n) ==
    /\ Command(j, n)
    /\ frames' = DeleteFrames(frames, j)
    /\ jobs' = [x \in DOMAIN jobs \ {j} |-> jobs[x]]

-----------------------------------------------------------------------------
(* The worker loop: WorkerThreadV2.run *)

\* effective_workers from the pending count (run, lines 370-374)
EffectiveWorkers(pending, batch) ==
    IF pending > 0
    THEN Min(ParallelWorkers, Max(1, (pending + batch - 1) \div batch))
    ELSE ParallelWorkers

\* The claim phase goes on while a slot is free (run, line 377).
AfterClaim(n, e) == IF n < e THEN "claim" ELSE "drain"

\* FarmManagerV2.start (the first heartbeat, status 'active') when the loop is entered;
\* otherwise the end of one iteration and the top of the next: the idle heartbeat and
\* cleanup_offline_workers when nothing is in flight, then the pending count and
\* this iteration's batch size.  With no free slot the claim phase is skipped and the
\* periodic heartbeat is sent.
LoopTop(w) ==
    /\ alive[w]
    /\ pc[w] \in {"start", "drain"}
    /\ LET idle == Len(futures[w]) = 0
           W1 == IF idle
                 THEN Heartbeat(workers, w, now, IF pc[w] = "start" THEN "active" ELSE "idle")
                 ELSE workers
           W2 == IF idle THEN cleanup_offline_workers(frames, W1, now).workers ELSE W1
       IN /\ frames' = IF idle THEN cleanup_offline_workers(frames, W1, now).frames ELSE frames
          /\ \E b \in BatchSizes :
                LET e == EffectiveWorkers(get_pending_frame_count(frames', jobs, current_pool_id[w]), b)
                    more == Len(futures[w]) < e
                IN /\ pc' = [pc EXCEPT ![w] = AfterClaim(Len(futures[w]), e)]
                   /\ batch_size' = [batch_size EXCEPT ![w] = IF more THEN b ELSE 0]
                   /\ eff' = [eff EXCEPT ![w] = IF more THEN e ELSE 0]
                   /\ workers' = IF more THEN W2 ELSE update_heartbeat(W2, w, now, "active", total_success[w])
    /\ UNCHANGED <<now, jobs, alive, futures, cur, ops, nclaims, ctl, thr, io>>

\* claim_frames(pool, w, batch) when it returns a range: the store transaction, and
\* the range appended to the caller's ranges in flight.
ClaimCall(w, batch) ==
    \E k \in FirstRows(Reclaim(frames, now), jobs, current_pool_id[w]) :
        LET F1 == Reclaim(frames, now)
        IN /\ frames' = ClaimRows(F1, k[1], k[3], FramesToClaim(F1, k[1], k[3], k[2], batch), w, now)
           /\ jobs' = StartJob(jobs, k[1])
           /\ futures' = [futures EXCEPT ![w] = Append(@, ClaimResult(F1, k, batch))]

\* run, lines 378-397: a claimed range is dispatched and the heartbeat is sent.
ClaimLoop(w) ==
    /\ alive[w]
    /\ pc[w] = "claim"
    /\ ClaimCall(w, batch_size[w])
    /\ workers' = update_heartbeat(workers, w, now, "active", total_success[w])
    /\ pc' = [pc EXCEPT ![w] = AfterClaim(Len(futures'[w]), eff[w])]
    /\ eff' = [eff EXCEPT ![w] = IF Len(futures'[w]) < @ THEN @ ELSE 0]
    /\ batch_size' = [batch_size EXCEPT ![w] = IF Len(futures'[w]) < eff[w] THEN @ ELSE 0]
    /\ UNCHANGED <<now, alive, cur, ops, ctl, thr, io>>

ClaimFrames(w) == ClaimLoop(w) /\ UNCHANGED nclaims

\* run, line 378 alone: claim_frames commits and returns a range; the job is looked up
\* next.
ClaimCommit(w) ==
    /\ alive[w]
    /\ pc[w] = "claim"
    /\ \E k \in FirstRows(Reclaim(frames, now), jobs, current_pool_id[w]) :
          LET F1 == Reclaim(frames, now)
          IN /\ frames' = ClaimRows(F1, k[1], k[3], FramesToClaim(F1, k[1], k[3], k[2], batch_size[w]), w, now)
             /\ jobs' = StartJob(jobs, k[1])
             /\ cur' = [cur EXCEPT ![w] = ClaimResult(F1, k, batch_size[w])]
    /\ pc' = [pc EXCEPT ![w] = "get_job"]
    /\ UNCHANGED <<now, workers, alive, futures, eff, batch_size, ops, nclaims, ctl, thr, io>>

\* run, lines 384-397: get_job; with no such job the range is dropped and the claim
\* phase goes on, otherwise the heartbeat is sent and the range is dispatched.
GetJob(w) ==
    /\ alive[w]
    /\ pc[w] = "get_job"
    /\ IF cur[w].job_id \in DOMAIN jobs
       THEN /\ futures' = [futures EXCEPT ![w] = Append(@, cur[w])]
            /\ workers' = update_heartbeat(workers, w, now, "active", total_success[w])
            /\ pc' = [pc EXCEPT ![w] = AfterClaim(Len(futures'[w]), eff[w])]
            /\ eff' = [eff EXCEPT ![w] = IF Len(futures'[w]) < @ THEN @ ELSE 0]
            /\ batch_size' = [batch_size EXCEPT ![w] = IF Len(futures'[w]) < eff[w] THEN @ ELSE 0]
       ELSE /\ pc' = [pc EXCEPT ![w] = "claim"]
            /\ UNCHANGED <<futures, workers, eff, batch_size>>
    /\ cur' = [cur EXCEPT ![w] = NoRange]
    /\ UNCHANGED <<now, jobs, frames, alive, ops, nclaims, ctl, thr, io>>

\* The same step where the specification counts the ranges handed out.
CountedClaimFrames(w) ==
    /\ nclaims < MaxClaims
    /\ ClaimLoop(w)
    /\ nclaims' = nclaims + 1

\* claim_frames returned None (its reclaim step is committed all the same).
ClaimNone(w) ==
    /\ alive[w]
    /\ pc[w] = "claim"
    /\ FirstRows(Reclaim(frames, now), jobs, current_pool_id[w]) = {}
    /\ frames' = Reclaim(frames, now)
    /\ workers' = IF Len(futures[w]) > 0 THEN update_heartbeat(workers, w, now, "active", total_success[w]) ELSE workers
    /\ pc' = [pc EXCEPT ![w] = "drain"]
    /\ eff' = [eff EXCEPT ![w] = 0]
    /\ batch_size' = [batch_size EXCEPT ![w] = 0]
    /\ UNCHANGED <<now, jobs, alive, futures, cur, ops, nclaims, ctl, thr, io>>

\* A converter that ended in success: complete_frames, first statement.
CompleteUpdate(w) ==
    /\ alive[w]
    /\ pc[w] = "drain"
    /\ \E i \in 1..Len(futures[w]) :
          /\ frames' = CompleteRows(frames, futures[w][i], w)
          /\ cur' = [cur EXCEPT ![w] = futures[w][i]]
          /\ futures' = [futures EXCEPT ![w] = RemoveAt(@, i)]
    /\ pc' = [pc EXCEPT ![w] = "cf_count"]
    /\ UNCHANGED <<now, jobs, workers, alive, eff, batch_size, ops, nclaims, ctl, thr, io>>

\* complete_frames, second statement: the count of rows not completed.
CompleteCount(w) ==
    /\ alive[w]
    /\ pc[w] = "cf_count"
    /\ IF Remaining(frames, cur[w].job_id) = 0
       THEN /\ pc' = [pc EXCEPT ![w] = "cf_status"]
            /\ cur' = cur
            /\ UNCHANGED job_completed_signal
       ELSE /\ pc' = [pc EXCEPT ![w] = "drain"]
            /\ cur' = [cur EXCEPT ![w] = NoRange]
            /\ job_completed_signal' = EmitIfCompleted(job_completed_signal, frames, cur[w].job_id)
    /\ UNCHANGED <<now, jobs, frames, workers, alive, futures, eff, batch_size, ops, nclaims, ctl,
                   is_running, hard_stop, conv, total_success, io>>

\* complete_frames, third statement: UPDATE jobs SET status = 'completed'.
CompleteStatus(w) ==
    /\ alive[w]
    /\ pc[w] = "cf_status"
    /\ jobs' = set_job_status(jobs, cur[w].job_id, "completed")
    /\ job_completed_signal' = EmitIfCompleted(job_completed_signal, frames, cur[w].job_id)
    /\ pc' = [pc EXCEPT ![w] = "drain"]
    /\ cur' = [cur EXCEPT ![w] = NoRange]
    /\ UNCHANGED <<now, frames, workers, alive, futures, eff, batch_size, ops, nclaims, ctl,
                   is_running, hard_stop, conv, total_success, io>>

\* A converter that ended in failure (timeout, exception, missing output file): release_frames.
ReleaseFrames(w) ==
    /\ alive[w]
    /\ pc[w] = "drain"
    /\ \E i \in 1..Len(futures[w]) :
          /\ \A k \in DOMAIN frames : InRange(k, futures[w][i]) => frames[k].retry_count < MaxRetry
          /\ frames' = ReleaseRows(frames, futures[w][i], w)
          /\ futures' = [futures EXCEPT ![w] = RemoveAt(@, i)]
          /\ job_completed_signal' = EmitIfCompleted(job_completed_signal, frames', futures[w][i].job_id)
    /\ UNCHANGED <<now, jobs, workers, alive, pc, cur, eff, batch_size, ops, nclaims, ctl,
                   is_running, hard_stop, conv, total_success, io>>

\* How a converter can end: its exit code, whether the first output file of the range
\* is on disk when process_frame_range looks, and what subprocess.run raised.  A
\* timeout or another exception leaves no exit code to look at.
Outcomes ==
    {o \in [exit : {0, 1}, first_file : BOOLEAN, raised : {"none", "timeout", "exception"}] :
        o.raised # "none" => (o.exit = 1 /\ o.first_file)}

\* process_frame_range, lines 549-575: what it returns to the loop.  A nonzero exit
\* code is logged and nothing more.
process_frame_range(o) == IF o.raised # "none" THEN FALSE ELSE o.first_file

\* The in-flight ranges of w whose converter has ended.
Ended(w) == {e.range : e \in conv[w]}

\* A variant of the frame count that leaves the end frame out.
FrameCountOpen(r) == r.end_frame - r.start_frame

\* run, line 411: frame_count = end_frame - start_frame + 1
FrameCount(r) == r.end_frame - r.start_frame + 1

\* The converter of an in-flight range ends with an outcome of O; a failure happens
\* only while the rows of the range have fewer than MaxRetry retries.
ConverterEndsIn(w, O) ==
    /\ alive[w]
    /\ \E r \in InFlightOf(futures, w) \ Ended(w), o \in O :
          /\ process_frame_range(o) \/
                \A k \in DOMAIN frames : InRange(k, r) => frames[k].retry_count < MaxRetry
          /\ conv' = [conv EXCEPT ![w] = @ \cup {[range |-> r, outcome |-> o]}]
    /\ UNCHANGED <<now, jobs, frames, workers, alive, pc, futures, cur, eff, batch_size, ops,
                   nclaims, ctl, is_running, hard_stop, total_success, job_completed_signal, io>>

ConverterEnds(w) == ConverterEndsIn(w, Outcomes)

\* The converter exits with code 0 and its first output file is on disk.
ConverterSucceeds(w) ==
    ConverterEndsIn(w, {[exit |-> 0, first_file |-> TRUE, raised |-> "none"]})

\* run, lines 406-417: a done future whose result is True: complete_frames (its first
\* statement here) and the success count.
ReconcileSuccess(w) ==
    /\ alive[w]
    /\ pc[w] = "drain"
    /\ \E i \in 1..Len(futures[w]), e \in conv[w] :
          /\ e.range = futures[w][i]
          /\ process_frame_range(e.outcome)
          /\ frames' = CompleteRows(frames, e.range, w)
          /\ cur' = [cur EXCEPT ![w] = e.range]
          /\ futures' = [futures EXCEPT ![w] = RemoveAt(@, i)]
          /\ conv' = [conv EXCEPT ![w] = @ \ {e}]
          /\ total_success' = [total_success EXCEPT ![w] = @ + FrameCount(e.range)]
    /\ pc' = [pc EXCEPT ![w] = "cf_count"]
    /\ UNCHANGED <<now, jobs, workers, alive, eff, batch_size, ops, nclaims, ctl,
                   is_running, hard_stop, job_completed_signal, io>>

\* run, lines 419-426: a done future whose result is False, or that raised:
\* release_frames.
ReconcileFailure(w) ==
    /\ alive[w]
    /\ pc[w] = "drain"
    /\ \E i \in 1..Len(futures[w]), e \in conv[w] :
          /\ e.range = futures[w][i]
          /\ ~process_frame_range(e.outcome)
          /\ frames' = ReleaseRows(frames, e.range, w)
          /\ futures' = [futures EXCEPT ![w] = RemoveAt(@, i)]
          /\ conv' = [conv EXCEPT ![w] = @ \ {e}]
          /\ job_completed_signal' = EmitIfCompleted(job_completed_signal, frames', e.range.job_id)
    /\ UNCHANGED <<now, jobs, workers, alive, pc, cur, eff, batch_size, ops, nclaims, ctl,
                   is_running, hard_stop, total_success, io>>

\* run, line 377 with is_running False: the claim phase is left; the periodic
\* heartbeat follows if ranges are in flight.
ClaimSkip(w) ==
    /\ alive[w]
    /\ pc[w] = "claim"
    /\ ~is_running[w]
    /\ workers' = IF Len(futures[w]) > 0 THEN update_heartbeat(workers, w, now, "active", total_success[w]) ELSE workers
    /\ pc' = [pc EXCEPT ![w] = "drain"]
    /\ eff' = [eff EXCEPT ![w] = 0]
    /\ batch_size' = [batch_size EXCEPT ![w] = 0]
    /\ UNCHANGED <<now, jobs, frames, alive, futures, cur, ops, nclaims, ctl, thr, io>>

\* WorkerThreadV2.stop, called by soft_stop_worker: self.is_running = False
SoftStop(w) ==
    /\ alive[w]
    /\ is_running[w]
    /\ pc[w] \notin {"stopped", "terminated"}
    /\ is_running' = [is_running EXCEPT ![w] = FALSE]
    /\ UNCHANGED <<now, jobs, frames, workers, alive, pc, futures, cur, eff, batch_size, ops,
                   nclaims, ctl, hard_stop, conv, total_success, job_completed_signal, io>>

\* run, line 357 with is_running False: the loop is left; the executor's exit waits
\* for the converters still running, nothing looks at their results, and
\* FarmManagerV2.stop sends the heartbeat 'idle'.
StopExit(w) ==
    /\ alive[w]
    /\ pc[w] \in {"start", "drain"}
    /\ ~is_running[w]
    /\ InFlightOf(futures, w) \subseteq Ended(w)
    /\ workers' = Heartbeat(workers, w, now, "idle")
    /\ pc' = [pc EXCEPT ![w] = "stopped"]
    /\ UNCHANGED <<now, jobs, frames, alive, futures, cur, eff, batch_size, ops, nclaims, ctl,
                   thr, io>>

\* hard_stop_worker, lines 1579-1584: the stop flag, and kill_braw_processes: every
\* converter of this host that is running ends with a nonzero exit code; its first
\* output file may be on disk.
HardStopKill(w) ==
    /\ alive[w]
    /\ ~hard_stop[w]
    /\ pc[w] \notin {"stopped", "terminated"}
    /\ is_running' = [is_running EXCEPT ![w] = FALSE]
    /\ hard_stop' = [hard_stop EXCEPT ![w] = TRUE]
    /\ \E f \in BOOLEAN :
          conv' = [conv EXCEPT ![w] = @ \cup
                     {[range |-> r, outcome |-> [exit |-> 1, first_file |-> f, raised |-> "none"]] :
                        r \in InFlightOf(futures, w) \ Ended(w)}]
    /\ UNCHANGED <<now, jobs, frames, workers, alive, pc, futures, cur, eff, batch_size, ops,
                   nclaims, ctl, total_success, job_completed_signal, io>>

\* hard_stop_worker, lines 1591-1593: the worker thread, if it still runs, is
\* terminated.
HardStopTerminate(w) ==
    /\ alive[w]
    /\ hard_stop[w]
    /\ pc[w] \notin {"stopped", "terminated"}
    /\ pc' = [pc EXCEPT ![w] = "terminated"]
    /\ UNCHANGED <<now, jobs, frames, workers, alive, futures, cur, eff, batch_size, ops,
                   nclaims, ctl, thr, io>>

\* The worker process is killed: it takes no further step.
Die(w) ==
    /\ alive[w]
    /\ alive' = [alive EXCEPT ![w] = FALSE]
    /\ UNCHANGED <<now, jobs, frames, workers, pc, futures, cur, eff, batch_size, ops, nclaims, ctl, thr, io>>

-----------------------------------------------------------------------------
(* Specifications *)

\* The steps of a worker other than a claim.
LoopStep(w) ==
    \/ LoopTop(w)
    \/ ClaimNone(w)
    \/ CompleteUpdate(w)
    \/ CompleteCount(w)
    \/ CompleteStatus(w)
    \/ ReleaseFrames(w)

\* The loop of w with settings.batch_frame_size left at MaxBatch.
FixedBatchStep(w) == LoopStep(w) /\ batch_size'[w] \in {0, MaxBatch}

Submit == \E j \in JobIds : \E pool \in JobDef[j].pools, prio \in JobDef[j].priorities : SubmitJob(j, pool, prio)

Toggle(j, n) ==
    \/ ExcludeJob(j, n)
    \/ ActivateJob(j, n)
    \/ PauseJob(j, n)

OperatorStep(j, n) ==
    \/ \E s \in JobStatuses : SetJobStatus(j, s, n)
    \/ Toggle(j, n)
    \/ \E p \in Priorities : SetJobPriority(j, p, n)
    \/ \E pool \in PoolIds : MoveJobToPool(j, pool, n)
    \/ ResetJob(j, n)

\* The whole system: both jobs, the operator, the workers and the clock, with at most
\* MaxOps operator commands and MaxClaims ranges handed out, and one batch size.
Next ==
    \/ Tick
    \/ Submit
    \/ \E j \in JobIds : OperatorStep(j, MaxOps)
    \/ \E w \in Workers : FixedBatchStep(w)
    \/ \E w \in Workers : CountedClaimFrames(w)

Spec == Init /\ [][Next]_vars

\* Exclude, pause and activate, up to MaxToggles of them, on two jobs of equal
\* priority in the workers' pool.
NextPause ==
    \/ Tick
    \/ \E j \in JobIds : SubmitJob(j, "default", 50)
    \/ \E j \in JobIds : Toggle(j, MaxToggles)
    \/ \E w \in Workers : FixedBatchStep(w)
    \/ \E w \in Workers : CountedClaimFrames(w)

SpecPause == Init /\ [][NextPause]_vars

\* The workers and the clock alone on job j1, with no bound on the ranges handed out.
NextWorkers ==
    \/ Tick
    \/ SubmitJob("j1", "default", 50)
    \/ \E w \in Workers : LoopStep(w)
    \/ \E w \in Workers : ClaimFrames(w)

SpecWorkers == Init /\ [][NextWorkers]_vars

\* claim_frames calls alone, every caller with the same batch size: no completion,
\* release, reset, or passage of time.
InitClaims ==
    /\ now = 0
    /\ jobs = <<>>
    /\ frames = <<>>
    /\ workers = [w \in Workers |-> NewWorker("default", 0)]
    /\ alive = [w \in Workers |-> TRUE]
    /\ pc = [w \in Workers |-> "claim"]
    /\ futures = [w \in Workers |-> <<>>]
    /\ cur = [w \in Workers |-> NoRange]
    /\ eff = [w \in Workers |-> 0]
    /\ \E b \in BatchSizes : batch_size = [w \in Workers |-> b]
    /\ ops = 0
    /\ nclaims = 0
    /\ pools = {"default"}
    /\ current_pool_id = [w \in Workers |-> "default"]
    /\ reply = NoReply
    /\ dp = NoDelete
    /\ is_running = [w \in Workers |-> TRUE]
    /\ hard_stop = [w \in Workers |-> FALSE]
    /\ conv = [w \in Workers |-> {}]
    /\ total_success = [w \in Workers |-> 0]
    /\ job_completed_signal = <<>>
    /\ arg = NULL
    /\ ret = NULL

ClaimOnly(w) ==
    /\ ClaimCall(w, batch_size[w])
    /\ UNCHANGED <<now, workers, alive, pc, cur, eff, batch_size, ops, nclaims, ctl, thr, io>>

NextClaims ==
    \/ Submit
    \/ \E w \in Workers : ClaimOnly(w)

SpecClaims == InitClaims /\ [][NextClaims]_vars

\* The pools: hosts create and delete pools, change their own pool, submit jobs to it
\* and move jobs between the pools there are; no worker loop runs.
NextAdmin ==
    \/ Tick
    \/ \E p \in PoolIds : CreatePool(p)
    \/ \E p \in PoolIds : DeletePoolJobs(p)
    \/ DeletePoolWorkers
    \/ DeletePoolRow
    \/ \E h \in Workers, j \in AdminJobIds : \E prio \in JobDef[j].priorities : FarmSubmitJob(h, j, prio)
    \/ \E j \in AdminJobIds : \E pool \in pools : MoveJobToPool(j, pool, MaxOps)
    \/ \E w \in Workers : \E p \in pools : SetPool(w, p)

SpecAdmin == Init /\ [][NextAdmin]_vars

\* The steps of a worker thread that looks at its stop flag and at how its converters
\* ended, with the batch size left at MaxBatch.
ThreadStep(w) ==
    \/ (is_running[w] /\ LoopTop(w) /\ batch_size'[w] \in {0, MaxBatch})
    \/ (is_running[w] /\ ClaimFrames(w))
    \/ (is_running[w] /\ ClaimNone(w))
    \/ ClaimSkip(w)
    \/ ConverterEnds(w)
    \/ ReconcileSuccess(w)
    \/ ReconcileFailure(w)
    \/ CompleteCount(w)
    \/ CompleteStatus(w)

\* Job j1, the worker threads and their soft and hard stop; the clock stands still.
NextStop ==
    \/ SubmitJob("j1", "default", 50)
    \/ \E w \in Workers : ThreadStep(w)
    \/ \E w \in Workers : SoftStop(w)
    \/ \E w \in Workers : StopExit(w)
    \/ \E w \in Workers : HardStopKill(w)
    \/ \E w \in Workers : HardStopTerminate(w)

SpecStop == Init /\ [][NextStop]_vars

\* A variant of the status rule that does not look at total.
JobListStatusAnyTotal(stored, total, completed, claimed) ==
    IF stored = "excluded" THEN "excluded"
    ELSE IF stored = "paused" THEN "paused"
    ELSE IF completed >= total THEN "completed"
    ELSE IF completed > 0 \/ claimed > 0 THEN "in_progress"
    ELSE "pending"

\* get_all_jobs, lines 342-352: the status shown for a job, from its stored status and
\* its frame counts.
JobListStatus(stored, total, completed, claimed) ==
    IF stored = "excluded" THEN "excluded"
    ELSE IF stored = "paused" THEN "paused"
    ELSE IF completed >= total /\ total > 0 THEN "completed"
    ELSE IF completed > 0 \/ claimed > 0 THEN "in_progress"
    ELSE "pending"

\* get_all_jobs: for each job row its shown status, completed and total; total is the
\* sum of the counts of the GROUP BY status query.  The order of the list (priority
\* DESC, created_at) is left out.
get_all_jobs(J, F) ==
    [j \in DOMAIN J |->
        LET total == CountStatus(F, j, "pending") + CountStatus(F, j, "claimed")
                       + CountStatus(F, j, "completed") + CountStatus(F, j, "failed")
            completed == CountStatus(F, j, "completed")
            claimed == CountStatus(F, j, "claimed")
        IN [status |-> JobListStatus(J[j].status, total, completed, claimed),
            completed |-> completed,
            total |-> total]]

\* The UI lists the jobs.
ListJobs ==
    /\ ret' = get_all_jobs(jobs, frames)
    /\ UNCHANGED <<now, jobs, frames, workers, workerVars, ops, nclaims, ctl, arg>>

\* The last listing is that of the empty store.
InitList ==
    /\ InitState
    /\ arg = NULL
    /\ ret = get_all_jobs(<<>>, <<>>)

\* Job j1 and the job without frames j0, worker w1, an operator who sets stored
\* statuses MaxToggles times at most, and the job list.
NextList ==
    \/ \E j \in AdminJobIds : SubmitJob(j, "default", 50)
    \/ \E j \in AdminJobIds, st \in JobStatuses : SetJobStatus(j, st, MaxToggles)
    \/ FixedBatchStep("w1")
    \/ ClaimFrames("w1")
    \/ ListJobs

SpecList == InitList /\ [][NextList]_vars

\* The position of the last c in string s, 0 if there is none.
LastIndexOf(s, c) ==
    LET I == {i \in 1..Len(s) : SubSeq(s, i, i) = c}
    IN IF I = {} THEN 0 ELSE CHOOSE i \in I : \A x \in I : x <= i

\* Path(p).stem: the last component of p without its last suffix.
Stem(p) ==
    LET name == SubSeq(p, LastIndexOf(p, "/") + 1, Len(p))
        dot == LastIndexOf(name, ".")
    IN IF dot <= 1 THEN name ELSE SubSeq(name, 1, dot - 1)

\* n zeros
RECURSIVE Zeros(_)
Zeros(n) == IF n <= 0 THEN "" ELSE "0" \o Zeros(n - 1)

\* f"{frame_idx:06d}": the decimal digits of the index, filled with zeros on the left
\* up to six characters.
Format06d(n) == Zeros(6 - Len(ToString(n))) \o ToString(n)

\* Path / name
Join(a, b) == a \o "/" \o b

\* A variant that gives both eyes the suffix of the left eye.
EyeSuffixLeft(eye) == "_L"

\* suffix = "_L" if eye == "left" else "_R"
EyeSuffix(eye) == IF eye = "left" THEN "_L" ELSE "_R"

\* FarmManagerV2.get_output_file_path
get_output_file_path(job, frame_idx, eye) ==
    LET clip_basename == Stem(job.clip_path)
        ext == IF job.format = "exr" THEN ".exr" ELSE ".ppm"
        filename == clip_basename \o "_" \o Format06d(frame_idx) \o ext
    IN IF eye = "sbs" THEN Join(Join(job.output_dir, "SBS"), filename)
       ELSE IF job.separate_folders
            THEN Join(Join(job.output_dir, IF eye = "left" THEN "L" ELSE "R"), filename)
            ELSE Join(job.output_dir,
                      clip_basename \o EyeSuffix(eye) \o "_" \o Format06d(frame_idx) \o ext)

\* The job parameters the output path depends on.
PathJobs ==
    [output_dir : {"/out", "out/shot1"},
     clip_path : {"/footage/A001.braw", "A.v2.braw", "clips/A_L.braw"},
     format : {"exr", "ppm"},
     separate_folders : BOOLEAN]

\* Frame indices with one to seven digits.
PathFrames == (0..MaxFrame) \cup {10, 999999, 1000000}

\* No path has been computed.
NoPath == [frame_idx |-> 0, eye |-> NULL, path |-> ""]

\* The job is one of PathJobs.
InitPath ==
    /\ InitState
    /\ arg \in PathJobs
    /\ ret = NoPath

\* The path of a frame and eye of the job is computed.
GetOutputFilePath(frame_idx, eye) ==
    /\ ret' = [frame_idx |-> frame_idx, eye |-> eye,
               path |-> get_output_file_path(arg, frame_idx, eye)]
    /\ UNCHANGED <<now, jobs, frames, workers, workerVars, ops, nclaims, ctl, arg>>

NextPath == \E frame_idx \in PathFrames, eye \in Eyes : GetOutputFilePath(frame_idx, eye)

SpecPath == InitPath /\ [][NextPath]_vars

\* The clip, output directory and conversion options a job row can carry: the
\* defaults of FarmManagerV2.submit_job, and a job that differs in each of them.
JobOptions ==
    {[clip_path |-> "/footage/A001.braw", output_dir |-> "/out", format |-> "exr",
      separate_folders |-> FALSE, use_aces |-> TRUE,
      color_input_space |-> "BMDFilm WideGamut Gen5", color_output_space |-> "ACEScg",
      use_stmap |-> FALSE, stmap_path |-> ""],
     [clip_path |-> "clips/B.v2.braw", output_dir |-> "out/shot1", format |-> "ppm",
      separate_folders |-> TRUE, use_aces |-> FALSE,
      color_input_space |-> "Linear", color_output_space |-> "Rec709",
      use_stmap |-> TRUE, stmap_path |-> "/maps/st.exr"]}

\* The eyes of a job row.
EyeLists == {<<"left">>, <<"left", "right">>, <<"sbs">>}

\* The priorities of the job that is rendered again: the default, and one less than
\* ten below 100.
RerenderPriorities == {50, 95}

\* The job ids FarmManagerV2.submit_job can generate for a re-render job:
\* job_<millisecond timestamp>_<clip stem>, the same for two calls in one millisecond.
RerenderIds == {"r1", "r2"}

\* The lists of bad frame indices the sequence scan reports: up to two indices of the job,
\* in any order.
BadLists == {<<>>} \cup {<<a>> : a \in 0..MaxFrame} \cup {<<a, b>> : a, b \in 0..MaxFrame}

\* The Job object: the columns of a jobs row.
JobRow(pool, prio, t, start, end, eyes, opt) ==
    [pool_id |-> pool, status |-> "pending", priority |-> prio, created_at |-> t,
     start_frame |-> start, end_frame |-> end, eyes |-> eyes,
     clip_path |-> opt.clip_path, output_dir |-> opt.output_dir, format |-> opt.format,
     separate_folders |-> opt.separate_folders, use_aces |-> opt.use_aces,
     color_input_space |-> opt.color_input_space,
     color_output_space |-> opt.color_output_space,
     use_stmap |-> opt.use_stmap, stmap_path |-> opt.stmap_path]

\* The frame keys FarmDatabase.submit_job inserts for job row: one per frame index of
\* range(start_frame, end_frame + 1) and eye.
FrameKeysOf(j, row) ==
    {<<j, i, row.eyes[e]>> : i \in row.start_frame..row.end_frame, e \in 1..Len(row.eyes)}

\* FarmDatabase.submit_job(job): the tables after it; unchanged when the job_id exists.
submit_job_row(J, F, j, row) ==
    IF j \in DOMAIN J
    THEN [jobs |-> J, frames |-> F]
    ELSE [jobs |-> [x \in DOMAIN J \cup {j} |-> IF x = j THEN row ELSE J[x]],
          frames |-> [k \in DOMAIN F \cup FrameKeysOf(j, row) |->
                        IF k \in FrameKeysOf(j, row) THEN NewFrame ELSE F[k]]]

\* group_frames_to_ranges, lines 1826-1836: the maximal runs of the sorted list, a run
\* going on while the next index is the end of the run plus one.
RECURSIVE GroupSorted(_, _, _)
GroupSorted(sorted, start, end) ==
    IF sorted = <<>> THEN <<<<start, end>>>>
    ELSE IF Head(sorted) = end + 1
         THEN GroupSorted(Tail(sorted), start, Head(sorted))
         ELSE <<<<start, end>>>> \o GroupSorted(Tail(sorted), Head(sorted), Head(sorted))

\* group_frames_to_ranges
group_frames_to_ranges(error_frames) ==
    IF error_frames = <<>> THEN <<>>
    ELSE LET sorted == SortSeq(error_frames, LAMBDA a, b : a < b)
         IN GroupSorted(Tail(sorted), Head(sorted), Head(sorted))

\* priority = min(original_job.priority + 10, 100)
RaisedPriority(p) == IF p + 10 < 100 THEN p + 10 ELSE 100

\* No re-render has been asked for.
NoRerender == [job_id |-> NULL, error_frames |-> <<>>]

\* create_rerender_job(j, B), the manager generating job id n: None when the job is
\* unknown or no range comes out; otherwise submit_job with the parameters of the
\* original job, the range from the start of the first run to the end of the last, and
\* the raised priority; the id is returned whatever the store did.
CreateRerenderJob(j, B, n) ==
    /\ arg' = [job_id |-> j, error_frames |-> B]
    /\ LET ranges == group_frames_to_ranges(B)
       IN IF j \notin DOMAIN jobs \/ ranges = <<>>
          THEN /\ ret' = NULL
               /\ UNCHANGED <<jobs, frames>>
          ELSE LET o == jobs[j]
                   row == JobRow(o.pool_id, RaisedPriority(o.priority), now,
                                 ranges[1][1], ranges[Len(ranges)][2], o.eyes, o)
               IN /\ jobs' = submit_job_row(jobs, frames, n, row).jobs
                  /\ frames' = submit_job_row(jobs, frames, n, row).frames
                  /\ ret' = n
    /\ UNCHANGED <<now, workers, workerVars, ops, nclaims, ctl>>

\* Job j1 has been submitted to a pool with frames 0..MaxFrame and every frame of it
\* has been completed by w1.
InitRerender ==
    /\ now = 0
    /\ \E pool \in PoolIds, prio \in RerenderPriorities, eyes \in EyeLists, opt \in JobOptions :
          /\ pools = {"default", pool}
          /\ jobs = [j \in {"j1"} |->
                       [JobRow(pool, prio, 0, 0, MaxFrame, eyes, opt) EXCEPT !.status = "completed"]]
          /\ frames = [k \in FrameKeysOf("j1", jobs["j1"]) |->
                         [status |-> "completed", worker_id |-> "w1", claimed_at |-> 0,
                          retry_count |-> 0]]
    /\ workers = [w \in Workers |-> NewWorker("default", 0)]
    /\ alive = [w \in Workers |-> TRUE]
    /\ pc = [w \in Workers |-> "start"]
    /\ futures = [w \in Workers |-> <<>>]
    /\ cur = [w \in Workers |-> NoRange]
    /\ eff = [w \in Workers |-> 0]
    /\ batch_size = [w \in Workers |-> 0]
    /\ ops = 0
    /\ nclaims = 0
    /\ current_pool_id = [w \in Workers |-> "default"]
    /\ reply = NoReply
    /\ dp = NoDelete
    /\ is_running = [w \in Workers |-> TRUE]
    /\ hard_stop = [w \in Workers |-> FALSE]
    /\ conv = [w \in Workers |-> {}]
    /\ total_success = [w \in Workers |-> 0]
    /\ job_completed_signal = <<>>
    /\ arg = NoRerender
    /\ ret = NULL

\* The re-render hook is called for job j1, or for a job that is not in the store.
NextRerender ==
    \E j \in {"j1", "j2"}, B \in BadLists, n \in RerenderIds : CreateRerenderJob(j, B, n)

SpecRerender == InitRerender /\ [][NextRerender]_vars

\* The priorities a caller can pass to submit_job and set_job_priority: any integer.
ApiPriorities == {0 - 20, 50, 95, 150}

\* FarmManagerV2.submit_job on host h, the generated job id being n: the Job object
\* takes the priority as it is passed, and FarmDatabase.submit_job inserts it.
ManagerSubmit(h, n, prio) ==
    /\ LET row == JobRow(current_pool_id[h], prio, now, 0, MaxFrame, <<"left">>,
                         CHOOSE o \in JobOptions : o.format = "exr")
       IN /\ jobs' = submit_job_row(jobs, frames, n, row).jobs
          /\ frames' = submit_job_row(jobs, frames, n, row).frames
    /\ reply' = [call |-> "submit_job", value |-> n]
    /\ UNCHANGED <<now, workers, workerVars, ops, nclaims, pools, current_pool_id, dp, io>>

\* The calls that store a priority: submit_job, set_job_priority (MaxToggles times at
\* most) and the re-render hook, on job j1 and on the jobs made from it.
NextPriority ==
    \/ \E h \in Workers, prio \in ApiPriorities : ManagerSubmit(h, "j2", prio)
    \/ \E j \in JobIds, p \in ApiPriorities : SetJobPriority(j, p, MaxToggles)
    \/ \E j \in JobIds, n \in RerenderIds : CreateRerenderJob(j, <<0>>, n)

SpecPriority == InitRerender /\ [][NextPriority]_vars

\* The steps of a worker thread whose converters all succeed, with the common batch
\* size MaxBatch.
RunStep(w) ==
    \/ (LoopTop(w) /\ batch_size'[w] \in {0, MaxBatch})
    \/ ClaimFrames(w)
    \/ ClaimNone(w)
    \/ ConverterSucceeds(w)
    \/ ReconcileSuccess(w)
    \/ CompleteCount(w)
    \/ CompleteStatus(w)

\* The worker process of w ends with nothing in flight and no call in progress.
Leave(w) == futures[w] = <<>> /\ pc[w] \in {"start", "drain"} /\ Die(w)

\* Job j1 alone, worked by w2 and, while it is there, by w1; no converter fails, and
\* the clock stands still, so that no claim expires.
NextRun ==
    \/ SubmitJob("j1", "default", 50)
    \/ \E w \in Workers : RunStep(w)
    \/ Leave("w1")

\* The loop of each worker goes round (it sleeps 0.1 s an iteration, 3 s when idle);
\* each converter ends, since process_frame_range waits for it with a timeout; each
\* iteration of the loop reconciles the futures that are done.
FairRun ==
    \A w \in Workers :
        /\ WF_vars(LoopTop(w) /\ batch_size'[w] \in {0, MaxBatch})
        /\ WF_vars(ClaimFrames(w))
        /\ WF_vars(ClaimNone(w))
        /\ WF_vars(ConverterSucceeds(w))
        /\ SF_vars(ReconcileSuccess(w))
        /\ WF_vars(CompleteCount(w))
        /\ WF_vars(CompleteStatus(w))

SpecRun == Init /\ [][NextRun]_vars /\ FairRun

\* Job j1 is submitted, worked on and deleted; its id is not submitted again.  The
\* claim is taken in its two steps, so that the job may be deleted between them.
NextDelete ==
    \/ Tick
    \/ (ops = 0 /\ SubmitJob("j1", "default", 50))
    \/ DeleteJob("j1", MaxOps)
    \/ \E w \in Workers : LoopStep(w)
    \/ \E w \in Workers : ClaimCommit(w)
    \/ \E w \in Workers : GetJob(w)

SpecDelete == Init /\ [][NextDelete]_vars

\* Worker w1 claims ranges of j1 and is killed before any of its converters finishes; w2
\* keeps running its loop and the clock advances.
NextLive ==
    \/ Tick
    \/ SubmitJob("j1", "default", 50)
    \/ LoopTop("w1") \/ ClaimFrames("w1") \/ ClaimNone("w1")
    \/ Die("w1")
    \/ LoopStep("w2")
    \/ ClaimFrames("w2")

\* The clock advances; the loop of w2 goes round (it sleeps at most 3 s an iteration);
\* each of its converters ends, in success or failure, since process_frame_range waits
\* for it with a timeout, and the loop then reconciles the range.
Fairness ==
    /\ WF_vars(Tick)
    /\ WF_vars(LoopTop("w2"))
    /\ WF_vars(ClaimFrames("w2"))
    /\ WF_vars(ClaimNone("w2"))
    /\ SF_vars(CompleteUpdate("w2") \/ ReleaseFrames("w2"))
    /\ WF_vars(CompleteCount("w2"))
    /\ WF_vars(CompleteStatus("w2"))

SpecLive == Init /\ [][NextLive]_vars /\ Fairness

-----------------------------------------------------------------------------
(* Properties *)

\* The rows a range names.
RowsIn(r) == {k \in DOMAIN frames : InRange(k, r)}

\* The ranges worker w has in flight.
InFlight(w) == {futures[w][i] : i \in 1..Len(futures[w])}

\* In this step claim_frames returned a range to w.
Claimed(w) == Len(futures'[w]) = Len(futures[w]) + 1

\* The range it returned.
Returned(w) == futures'[w][Len(futures'[w])]

\* C1: at no time do two workers both hold an in-flight range that contains the same
\* (job, frame, eye) triple.
C1_Exclusive ==
    \A w1 \in Workers, w2 \in Workers :
        w1 # w2 =>
            \A r1 \in InFlight(w1), r2 \in InFlight(w2) : RowsIn(r1) \cap RowsIn(r2) = {}

\* The positions of the ranges in flight, whoever holds them.
Held == UNION {{<<w, i>> : i \in 1..Len(futures[w])} : w \in Workers}

\* C2: under claim_frames calls alone with one common batch size, the returned ranges
\* are pairwise disjoint and lie inside the frame indices (and eyes) of their job.
C2_Partition ==
    /\ \A a \in Held, b \in Held :
          a # b => RowsIn(futures[a[1]][a[2]]) \cap RowsIn(futures[b[1]][b[2]]) = {}
    /\ \A a \in Held :
          LET r == futures[a[1]][a[2]]
          IN /\ r.job_id \in DOMAIN jobs
             /\ JobDef[r.job_id].start_frame <= r.start_frame
             /\ r.start_frame <= r.end_frame
             /\ r.end_frame <= JobDef[r.job_id].end_frame
             /\ \E e \in 1..Len(JobDef[r.job_id].eyes) : JobDef[r.job_id].eyes[e] = r.eye

\* C2 witness: job j1 alone, all of its frames handed out, some to each worker.
C2_Witness ==
    /\ DOMAIN jobs = {"j1"}
    /\ \A k \in DOMAIN frames : \E a \in Held : k \in RowsIn(futures[a[1]][a[2]])
    /\ \A w \in Workers : Len(futures[w]) > 0

\* C3: a returned range (job, s, e, eye) has every frame s..e pending before the call
\* (after the call's own reclaim step), has at most batch_size frames, and is the longest
\* such prefix.
C3_Prefix ==
    [][\A w \in Workers :
          Claimed(w) =>
              LET r == Returned(w)
                  F1 == Reclaim(frames, now)
                  IsPending(i) == <<r.job_id, i, r.eye>> \in DOMAIN F1 /\ F1[<<r.job_id, i, r.eye>>].status = "pending"
                  n == r.end_frame - r.start_frame + 1
              IN /\ \A i \in r.start_frame..r.end_frame : IsPending(i)
                 /\ n <= batch_size[w]
                 /\ n = batch_size[w] \/ ~IsPending(r.end_frame + 1)]_vars

\* The order C4 names: priority descending, creation time ascending, frame index
\* ascending, eye left < right < sbs.
C4_Key(k) ==
    <<0 - jobs[k[1]].priority, jobs[k[1]].created_at, k[2],
      CASE k[3] = "left" -> 1 [] k[3] = "right" -> 2 [] k[3] = "sbs" -> 3>>

C4_Less(a, b) ==
    \E n \in 1..4 : C4_Key(a)[n] < C4_Key(b)[n] /\ \A m \in 1..(n - 1) : C4_Key(a)[m] = C4_Key(b)[m]

\* C4: the first frame of a returned range is a minimum, under the order (priority
\* descending, creation ascending, frame index ascending, eye left < right < sbs), of
\* the pending frames of candidate jobs in the caller's pool after the reclaim step.
C4_FirstIsMinimum ==
    [][\A w \in Workers :
          Claimed(w) =>
              LET r == Returned(w)
                  first == <<r.job_id, r.start_frame, r.eye>>
                  F1 == Reclaim(frames, now)
                  cand == {k \in DOMAIN F1 :
                              /\ F1[k].status = "pending"
                              /\ jobs[k[1]].pool_id = current_pool_id[w]
                              /\ jobs[k[1]].status \notin {"excluded", "paused", "completed"}}
              IN first \in cand /\ \A k \in cand : ~C4_Less(k, first)]_vars

\* C4 witness: the later-created job j2 has the higher priority and a worker holds its
\* first frame with the left eye, while every frame of the candidate job j1 is
\* still pending.
C4_Witness ==
    /\ DOMAIN jobs = {"j1", "j2"}
    /\ jobs["j2"].priority > jobs["j1"].priority
    /\ jobs["j2"].created_at > jobs["j1"].created_at
    /\ Candidate(jobs, "j1", "default")
    /\ \A k \in RowsOf(frames, "j1") : frames[k].status = "pending" /\ frames[k].retry_count = 0
    /\ \E w \in Workers : \E r \in InFlight(w) : r.job_id = "j2" /\ r.eye = "left"
    /\ frames[<<"j2", 0, "sbs">>].status = "pending"
    /\ nclaims = 1

\* C5: claim_frames(pool) returns frames only of a job that is in that pool and whose
\* status, at the time of the call, is neither completed nor failed.
C5_PoolAndLive ==
    [][\A w \in Workers :
          Claimed(w) =>
              /\ jobs[Returned(w).job_id].pool_id = current_pool_id[w]
              /\ jobs[Returned(w).job_id].status \notin {"completed", "failed"}]_vars

\* C6: while a job is excluded or paused no step takes one of its frames from pending to
\* claimed, and right after activate_job each of its pending frames is among the frames
\* claim_frames selects from for its pool.
C6_ExcludedNotClaimed ==
    [][/\ \A k \in DOMAIN frames :
            jobs[k[1]].status \in {"excluded", "paused"} /\ frames[k].status = "pending"
                => frames'[k].status # "claimed"
       /\ \A j \in JobIds :
            ActivateJob(j, MaxToggles) =>
                \A k \in RowsOf(frames', j) :
                    frames'[k].status = "pending" => k \in PendingRows(frames', jobs', jobs'[j].pool_id)]_vars

\* C6 witness: j1 was created first, is excluded or paused with every frame untouched,
\* and a worker has been handed frames of the later job j2 instead.
C6_Witness ==
    /\ DOMAIN jobs = {"j1", "j2"}
    /\ jobs["j1"].created_at < jobs["j2"].created_at
    /\ jobs["j1"].status \in {"excluded", "paused"}
    /\ \A k \in RowsOf(frames, "j1") : frames[k].status = "pending" /\ frames[k].retry_count = 0
    /\ \E w \in Workers : \E r \in InFlight(w) : r.job_id = "j2"

\* Frame k is claimed by the killed worker w1, for longer than the claim timeout.
HeldByDead(k) ==
    IF k \in DOMAIN frames
    THEN /\ ~alive["w1"]
         /\ frames[k].status = "claimed"
         /\ frames[k].worker_id = "w1"
         /\ now - frames[k].claimed_at > CLAIM_TIMEOUT_SEC
    ELSE FALSE

\* claim_frames has handed frame k to the live worker w2.
HandedToLive(k) ==
    IF k \in DOMAIN frames
    THEN frames[k].status = "claimed" /\ frames[k].worker_id = "w2"
    ELSE FALSE

C8_CompletedIffAllFrames ==
    \A j \in DOMAIN jobs :
        jobs[j].status = "completed" <=> \A k \in RowsOf(frames, j) : frames[k].status = "completed"

\* complete_frames called by w for each row of S in turn, one frame per call.
RECURSIVE CompleteEach(_, _, _, _)
CompleteEach(F, J, S, w) ==
    IF S = {}
    THEN [frames |-> F, jobs |-> J]
    ELSE LET k == CHOOSE x \in S : TRUE
             R == complete_frames(F, J, [job_id |-> k[1], start_frame |-> k[2], end_frame |-> k[2], eye |-> k[3]], w)
         IN CompleteEach(R.frames, R.jobs, S \ {k}, w)

\* C9: from every reachable store state, complete_frames calls covering every (frame, eye)
\* of a job leave its status completed, whatever it was and whichever worker calls; and
\* when a complete_frames call of the worker loop returns with every frame of the job
\* completed, the job's status is completed.
C9_CoverCompletes ==
    /\ [](\A j \in DOMAIN jobs, w \in Workers :
            CompleteEach(frames, jobs, RowsOf(frames, j), w).jobs[j].status = "completed")
    /\ [][\A w \in Workers :
            /\ pc[w] \in {"cf_count", "cf_status"}
            /\ pc'[w] = "drain"
            /\ \A k \in RowsOf(frames', cur[w].job_id) : frames'[k].status = "completed"
            => jobs'[cur[w].job_id].status = "completed"]_vars

\* C9 witness: after an operator command, both workers have completed ranges of j1, all
\* of its frames are completed, no call is under way, and its status is completed.
C9_Witness ==
    /\ "j1" \in DOMAIN jobs
    /\ jobs["j1"].status = "completed"
    /\ ops = 1
    /\ \A k \in RowsOf(frames, "j1") : frames[k].status = "completed"
    /\ \A w \in Workers : pc[w] = "drain" /\ \E k \in RowsOf(frames, "j1") : frames[k].worker_id = w

\* Every range a caller can name.
AllRanges ==
    {r \in [job_id : DOMAIN jobs, start_frame : 0..MaxFrame, end_frame : 0..MaxFrame, eye : Eyes] :
        r.start_frame <= r.end_frame}

\* C10: complete_frames(job, s, e, eye, W) completes exactly the claimed or pending rows
\* of the range, whichever worker they are assigned to, and repeating the call changes
\* no frame row and no job status.
C10_CompleteIdempotent ==
    \A r \in AllRanges, w \in Workers :
        LET R1 == complete_frames(frames, jobs, r, w)
            R2 == complete_frames(R1.frames, R1.jobs, r, w)
        IN /\ \A k \in DOMAIN frames :
                 IF InRange(k, r) /\ frames[k].status \in {"claimed", "pending"}
                 THEN R1.frames[k] = [frames[k] EXCEPT !.status = "completed"]
                 ELSE R1.frames[k] = frames[k]
           /\ R2 = R1

\* C10 witness: w1 has run the update of complete_frames on a range in which a row had
\* been retaken by w2, and that row is completed.
C10_Witness ==
    /\ pc["w1"] = "cf_count"
    /\ \E k \in RowsIn(cur["w1"]) : frames[k].worker_id = "w2" /\ frames[k].status = "completed"

\* C11: release_frames(job, s, e, eye, W) changes no frame row assigned to another
\* worker or to no worker, and no row outside the range or of another eye or job; every
\* row it changes becomes pending, with worker and claim time cleared and its retry
\* count one higher.
C11_ReleaseEffect ==
    \A r \in AllRanges, w \in Workers :
        LET R == ReleaseRows(frames, r, w)
        IN /\ DOMAIN R = DOMAIN frames
           /\ \A k \in DOMAIN frames :
                 /\ (~InRange(k, r) \/ frames[k].worker_id # w) => R[k] = frames[k]
                 /\ R[k] # frames[k] =>
                       /\ R[k].status = "pending"
                       /\ R[k].worker_id = NULL
                       /\ R[k].claimed_at = NoTime
                       /\ R[k].retry_count = frames[k].retry_count + 1

\* C11 witness: a row of j1 has been released once (pending, unassigned, retry count 1)
\* while another row of j1 is still claimed by the other worker.
C11_Witness ==
    \E k1, k2 \in RowsOf(frames, "j1") :
        /\ frames[k1].status = "pending"
        /\ frames[k1].worker_id = NULL
        /\ frames[k1].claimed_at = NoTime
        /\ frames[k1].retry_count = 1
        /\ frames[k2].status = "claimed"
        /\ frames[k2].worker_id # NULL
        /\ frames[k2].retry_count = 0
        /\ \E w \in Workers : frames[k2].worker_id # w /\ alive[w] /\ futures[w] = <<>>

\* In this step some worker's claim_frames call committed (with or without a range).
ClaimStep == \E w \in Workers : pc[w] = "claim" /\ (Claimed(w) \/ pc'[w] = "drain")

\* C12: when claim_frames takes a frame back because its claim expired, the frame's
\* retry count goes up by one and its assignment is cleared, as on a reported failure;
\* so a frame that was reclaimed and handed out again has a retry count of at least 1.
C12_ReclaimCountsRetry ==
    [][ClaimStep =>
          \A k \in DOMAIN frames :
              Expired(frames[k], now) =>
                  /\ frames'[k].retry_count = frames[k].retry_count + 1
                  /\ frames'[k].status = "pending" => frames'[k].worker_id = NULL]_vars

\* C13: a frame's retry count is lowered by no operation but reset_job, which sets it
\* to 0: claim, reclaim, complete, release, cleanup, and the operator's status,
\* priority and pool commands leave it as it is or raise it.
C13_RetryNeverDecreases ==
    [][\A k \in DOMAIN frames \cap DOMAIN frames' :
          frames'[k].retry_count < frames[k].retry_count =>
              /\ frames'[k].retry_count = 0
              /\ ResetJob(k[1], MaxOps)]_vars

\* C13 witness: a frame that was released once has since been claimed again and
\* completed, an operator command has run, and its retry count is still 1.
C13_Witness ==
    /\ ops = 1
    /\ \E k \in DOMAIN frames : frames[k].status = "completed" /\ frames[k].retry_count = 1

\* C14: right after reset_job(J), whatever the state of J before, every frame of J is
\* pending with no worker, get_job_progress(J) reports completed = 0 and
\* pending = total, and the job's status is pending; the whole change is one step.
C14_ResetPostState ==
    [][\A j \in JobIds :
          ResetJob(j, MaxOps) =>
              /\ \A k \in RowsOf(frames', j) :
                    frames'[k].status = "pending" /\ frames'[k].worker_id = NULL
              /\ get_job_progress(frames', j).completed = 0
              /\ get_job_progress(frames', j).pending = get_job_progress(frames', j).total
              /\ get_job_progress(frames', j).total = Cardinality(FrameKeys(j))
              /\ jobs'[j].status = "pending"]_vars

\* C14 witness: j1 has been reset while a live worker had a range of it in flight: no
\* time has passed, the one operator command is spent, every row of j1 is as new and
\* the job is pending.
C14_Witness ==
    /\ now = 0
    /\ ops = 1
    /\ "j1" \in DOMAIN jobs
    /\ jobs["j1"].status = "pending"
    /\ \A k \in RowsOf(frames, "j1") : frames[k] = NewFrame
    /\ \E w \in Workers : alive[w] /\ \E r \in InFlight(w) : r.job_id = "j1"

\* C15: submit_job is all-or-nothing.  When the job id is new, the job row exists
\* afterwards with exactly one pending frame row for every frame index of the range and
\* every eye, and no other row changes; when the job id exists already, the submitter
\* is told of the conflict and the jobs and frames tables are unchanged.
C15_SubmitAllOrNothing ==
    [][\A h \in Workers, j \in AdminJobIds, prio \in Priorities :
          FarmSubmitJob(h, j, prio) =>
              IF j \in DOMAIN jobs
              THEN /\ reply'.value = "Conflict"
                   /\ jobs' = jobs
                   /\ frames' = frames
              ELSE /\ j \in DOMAIN jobs'
                   /\ RowsOf(frames', j) = FrameKeys(j)
                   /\ \A k \in FrameKeys(j) : frames'[k] = NewFrame
                   /\ \A k \in DOMAIN frames : frames'[k] = frames[k]]_vars

\* C16: a submission whose start frame is past its end frame is rejected with
\* InvalidArgument and creates neither a job row nor frame rows.
C16_ZeroFrameRejected ==
    [][\A h \in Workers, j \in AdminJobIds, prio \in Priorities :
          (FarmSubmitJob(h, j, prio) /\ JobDef[j].start_frame > JobDef[j].end_frame) =>
              /\ reply'.value = "InvalidArgument"
              /\ jobs' = jobs
              /\ frames' = frames]_vars

\* C17: delete_pool(P) is one atomic unit: in no state does a job or a worker reference
\* a pool whose row is gone, and in no state have the jobs of P been moved to default
\* while a worker of P has not.
C17_DeletePoolAtomic ==
    /\ \A j \in DOMAIN jobs : jobs[j].pool_id \in pools
    /\ \A w \in Workers : workers[w].pool_id \in pools
    /\ dp.at = "workers" => \A w \in Workers : workers[w].pool_id # dp.pool_id

\* C18: the pool default exists in every state, and delete_pool('default') returns
\* False and changes no pool, job or worker row.
C18_DefaultPoolStays ==
    /\ []("default" \in pools)
    /\ [][DeletePoolJobs("default") =>
             /\ reply' = [call |-> "delete_pool", value |-> "False"]
             /\ UNCHANGED <<pools, jobs, workers>>]_vars

\* C18 witness: delete_pool('default') has been refused while another pool exists and a
\* job and a worker are in the default pool.
C18_Witness ==
    /\ reply = [call |-> "delete_pool", value |-> "False"]
    /\ pools = PoolIds
    /\ \E j \in DOMAIN jobs : jobs[j].pool_id = "default"
    /\ \E w \in Workers : workers[w].pool_id = "default"

\* C19: in every state every frame row belongs to an existing job: delete_job removes
\* the job row and all of its frame rows in one step, and complete_frames and
\* release_frames of a worker that still holds a range of the deleted job bring no row
\* back.
C19_FramesHaveJob ==
    /\ [](\A k \in DOMAIN frames : k[1] \in DOMAIN jobs)
    /\ [][\A j \in JobIds :
             DeleteJob(j, MaxOps) => (j \notin DOMAIN jobs' /\ RowsOf(frames', j) = {})]_vars
    /\ [][\A j \in JobIds : (j \in DOMAIN jobs /\ j \notin DOMAIN jobs') => DeleteJob(j, MaxOps)]_vars

\* C19 witness: j1 was deleted while both workers held ranges of it; no time has
\* passed, w1's complete_frames has since counted no row left to do and is about to
\* write the job's status, w2's range is still in flight, and there is no frame row.
C19_Witness ==
    /\ now = 0
    /\ "j1" \notin DOMAIN jobs
    /\ DOMAIN frames = {}
    /\ pc["w1"] = "cf_status"
    /\ cur["w1"].job_id = "j1"
    /\ \E r \in InFlight("w2") : r.job_id = "j1"

\* C20: cleanup_offline_workers returns to pending, unassigned, every claimed frame of
\* a worker whose last heartbeat is older than HEARTBEAT_TIMEOUT_SEC and marks that
\* worker offline, in one step; claimed frames of workers with a fresh heartbeat, and
\* frames that are not claimed, stay as they are, and so do the other workers.
C20_CleanupEffect ==
    LET R == cleanup_offline_workers(frames, workers, now)
        stale(w) == w \in Workers /\ workers[w].last_heartbeat < now - HEARTBEAT_TIMEOUT_SEC
    IN /\ DOMAIN R.frames = DOMAIN frames
       /\ \A k \in DOMAIN frames :
             IF frames[k].status = "claimed" /\ stale(frames[k].worker_id)
             THEN R.frames[k] = [frames[k] EXCEPT !.status = "pending", !.worker_id = NULL,
                                                   !.claimed_at = NoTime]
             ELSE R.frames[k] = frames[k]
       /\ \A w \in Workers :
             IF stale(w)
             THEN R.workers[w] = [workers[w] EXCEPT !.status = "offline"]
             ELSE R.workers[w] = workers[w]

\* C20 witness: cleanup has run against a worker whose heartbeat is stale: the worker is
\* offline, a frame of a range it has in flight is pending and unassigned again, a
\* frame it completed is still completed, and a frame claimed by the worker with the
\* fresh heartbeat is still claimed.
C20_Witness ==
    \E w \in Workers, v \in Workers :
        /\ workers[w].status = "offline"
        /\ workers[w].last_heartbeat < now - HEARTBEAT_TIMEOUT_SEC
        /\ \E k \in DOMAIN frames :
              /\ \E r \in InFlight(w) : InRange(k, r)
              /\ frames[k] = NewFrame
        /\ \E k \in DOMAIN frames : frames[k].status = "completed" /\ frames[k].worker_id = w
        /\ workers[v].last_heartbeat = now
        /\ \E k \in DOMAIN frames : frames[k].status = "claimed" /\ frames[k].worker_id = v

\* The converter outcome that process_frame_range is told to report as success.
Succeeded(o) == o.raised = "none" /\ o.exit = 0 /\ o.first_file

\* The ended converters whose range the step reconciles.
Reconciled(w) == conv[w] \ conv'[w]

\* C21: a range is reconciled as success (complete_frames, total_success) only if
\* its converter exited with code 0 and the first output file of the range exists.
C21_SuccessNeedsExitZero ==
    [][\A w \in Workers : ReconcileSuccess(w) =>
          \A e \in Reconciled(w) : Succeeded(e.outcome)]_vars

\* C22: a converter that failed (nonzero exit, timeout, exception, or first file
\* missing) has exactly its range released by release_frames, and the loop goes on.
C22_FailureReleases ==
    [][\A w \in Workers : \A e \in Reconciled(w) :
          ~Succeeded(e.outcome) =>
             /\ frames' = ReleaseRows(frames, e.range, w)
             /\ pc'[w] = "drain"]_vars

\* C23: after a soft stop the thread claims nothing more, and when it has finished
\* none of its ranges is left unreconciled.
C23_SoftStopReconciles ==
    /\ [][\A w \in Workers : ~is_running[w] => ~Claimed(w)]_vars
    /\ [](\A w \in Workers : (pc[w] = "stopped" /\ ~hard_stop[w]) => futures[w] = <<>>)

\* C24: after a hard stop the worker calls neither release_frames nor
\* complete_frames for a range that was in flight.
C24_HardStopNoReconcile ==
    [][\A w \in Workers : hard_stop[w] => ~(ReconcileSuccess(w) \/ ReconcileFailure(w))]_vars

\* C25: once a worker has been stopped, softly or hard, its stored status is
\* 'offline'.
C25_StoppedIsOffline ==
    \A w \in Workers :
        (pc[w] \in {"stopped", "terminated"} /\ w \in DOMAIN workers) =>
            workers[w].status = "offline"

\* The sum of total_success over the workers of S.
RECURSIVE SumSuccess(_)
SumSuccess(S) ==
    IF S = {} THEN 0
    ELSE LET w == CHOOSE x \in S : TRUE IN total_success[w] + SumSuccess(S \ {w})

\* Job j1 is stored as completed, each of its frame rows is completed, and the success
\* counts of the workers add up to its number of frames.
RunDone ==
    /\ "j1" \in DOMAIN jobs
    /\ jobs["j1"].status = "completed"
    /\ \A k \in FrameKeys("j1") : k \in DOMAIN frames /\ frames[k].status = "completed"
    /\ SumSuccess(Workers) = Cardinality(FrameKeys("j1"))

ShownStatus(J, F, j) ==
    IF J[j].status \in {"excluded", "paused"} THEN J[j].status
    ELSE IF RowsOf(F, j) # {} /\ \A k \in RowsOf(F, j) : F[k].status = "completed" THEN "completed"
    ELSE IF \E k \in RowsOf(F, j) : F[k].status \in {"completed", "claimed"} THEN "in_progress"
    ELSE "pending"

\* C27: the job list shows, for every job of the store, excluded or paused if that is
\* stored; otherwise completed if the job has frames and all are completed; otherwise
\* in_progress if a frame is completed or claimed; otherwise pending; and its
\* completed and total are the numbers of completed frame rows and of all frame rows.
C27_JobListRule ==
    [][ListJobs =>
          /\ DOMAIN ret' = DOMAIN jobs
          /\ \A j \in DOMAIN jobs :
                /\ ret'[j].status = ShownStatus(jobs, frames, j)
                /\ ret'[j].completed =
                      Cardinality({k \in RowsOf(frames, j) : frames[k].status = "completed"})
                /\ ret'[j].total = Cardinality(RowsOf(frames, j))]_vars

\* C27 witness: the list shows the job without frames as pending, and job j1, stored
\* as pending, as in_progress with one of its frames completed and another claimed.
C27_Witness ==
    /\ DOMAIN ret = {"j0", "j1"}
    /\ DOMAIN jobs = {"j0", "j1"}
    /\ ret = get_all_jobs(jobs, frames)
    /\ jobs["j1"].status = "pending"
    /\ jobs["j0"].status = "pending"
    /\ ret["j0"] = [status |-> "pending", completed |-> 0, total |-> 0]
    /\ ret["j1"].status = "in_progress"
    /\ ret["j1"].completed > 0
    /\ \E k \in RowsOf(frames, "j1") : frames[k].status = "claimed"

\* The i-th decimal digit of n from the right, i = 0 for the units.
RECURSIVE Pow10(_)
Pow10(i) == IF i = 0 THEN 1 ELSE 10 * Pow10(i - 1)

Digit(n, i) == ToString((n \div Pow10(i)) % 10)

\* The six digits of n < 1000000.
SixDigits(n) ==
    Digit(n, 5) \o Digit(n, 4) \o Digit(n, 3) \o Digit(n, 2) \o Digit(n, 1) \o Digit(n, 0)

\* The clip names without directory and extension of the clip paths of PathJobs.
ClipOf(clip_path) ==
    CASE clip_path = "/footage/A001.braw" -> "A001"
      [] clip_path = "A.v2.braw" -> "A.v2"
      [] clip_path = "clips/A_L.braw" -> "A_L"

\* The path the scheme gives frame F (of at most six digits) and eye of job.
SchemePath(job, F, eye) ==
    LET clip == ClipOf(job.clip_path)
        ext == "." \o job.format
        LR == IF eye = "left" THEN "L" ELSE "R"
    IN IF eye = "sbs"
       THEN job.output_dir \o "/SBS/" \o clip \o "_" \o SixDigits(F) \o ext
       ELSE IF job.separate_folders
            THEN job.output_dir \o "/" \o LR \o "/" \o clip \o "_" \o SixDigits(F) \o ext
            ELSE job.output_dir \o "/" \o clip \o "_" \o LR \o "_" \o SixDigits(F) \o ext

\* C28: for a fixed job the output path of (frame index, eye) is the path of no other
\* (frame index, eye), and for a frame index of at most six digits it is
\* <output_dir>/SBS/<clip>_<F><ext> for eye sbs, <output_dir>/<L|R>/<clip>_<F><ext>
\* for left and right with separate_folders, <output_dir>/<clip>_<L|R>_<F><ext> without.
C28_PathScheme ==
    ret.eye # NULL =>
        /\ \A f \in PathFrames, eye \in Eyes :
              get_output_file_path(arg, f, eye) = ret.path => (f = ret.frame_idx /\ eye = ret.eye)
        /\ ret.frame_idx < 1000000 => ret.path = SchemePath(arg, ret.frame_idx, ret.eye)

\* C28 witness: the path of frame 1, right eye, of a job without separate folders
\* whose clip name itself ends in _L.
C28_Witness ==
    /\ arg = [output_dir |-> "out/shot1", clip_path |-> "clips/A_L.braw", format |-> "ppm",
              separate_folders |-> FALSE]
    /\ ret = [frame_idx |-> 1, eye |-> "right", path |-> "out/shot1/A_L_R_000001.ppm"]

\* The clip, output directory and options of the jobs of JobDef: every job converts
\* the same clip into the same directory.
JobFiles(j) ==
    [output_dir |-> "/out", clip_path |-> "/footage/A001.braw", format |-> "exr",
     separate_folders |-> FALSE]

\* The output files the converter of range r writes.
Targets(r) ==
    {get_output_file_path(JobFiles(r.job_id), f, r.eye) : f \in r.start_frame..r.end_frame}

\* C29: no two ranges in flight at the same time on live workers target the same
\* output file.
C29_DisjointTargets ==
    \A w1 \in Workers, w2 \in Workers :
        \A i \in 1..Len(futures[w1]), j \in 1..Len(futures[w2]) :
            (alive[w1] /\ alive[w2] /\ <<w1, i>> # <<w2, j>>) =>
                Targets(futures[w1][i]) \cap Targets(futures[w2][j]) = {}

\* The elements of a sequence.
Range(q) == {q[i] : i \in 1..Len(q)}

\* The least and the greatest element of a nonempty set of integers.
MinOf(S) == CHOOSE x \in S : \A y \in S : x <= y

MaxOf(S) == CHOOSE x \in S : \A y \in S : y <= x

\* The columns a re-render job takes over from the job it renders again.
SameParameters(a, b) ==
    /\ a.clip_path = b.clip_path
    /\ a.output_dir = b.output_dir
    /\ a.eyes = b.eyes
    /\ a.pool_id = b.pool_id
    /\ a.format = b.format
    /\ a.separate_folders = b.separate_folders
    /\ a.use_aces = b.use_aces
    /\ a.color_input_space = b.color_input_space
    /\ a.color_output_space = b.color_output_space
    /\ a.use_stmap = b.use_stmap
    /\ a.stmap_path = b.stmap_path

\* C30: the re-render hook, given job j1 and a nonempty list B of bad frames, submits
\* exactly one new job, with the parameters of j1, the frame range [min B, max B] and
\* the priority min(priority of j1 + 10, 100), and leaves the job row and frame rows of
\* j1 as they are; given an empty list it submits no job.
C30_RerenderSubmitsOne ==
    [][\A B \in BadLists, n \in RerenderIds :
          CreateRerenderJob("j1", B, n) =>
              /\ jobs'["j1"] = jobs["j1"]
              /\ \A k \in RowsOf(frames, "j1") : frames'[k] = frames[k]
              /\ IF B = <<>>
                 THEN jobs' = jobs /\ frames' = frames
                 ELSE \E x \in DOMAIN jobs' \ DOMAIN jobs :
                        /\ DOMAIN jobs' = DOMAIN jobs \cup {x}
                        /\ SameParameters(jobs'[x], jobs["j1"])
                        /\ jobs'[x].start_frame = MinOf(Range(B))
                        /\ jobs'[x].end_frame = MaxOf(Range(B))
                        /\ jobs'[x].priority =
                              (IF jobs["j1"].priority + 10 <= 100
                               THEN jobs["j1"].priority + 10 ELSE 100)]_vars

\* C31: exclude_job, pause_job and activate_job leave every frame row and every other
\* job as they are and change of the job's row nothing but the stored status;
\* activate_job makes the stored status pending.
C31_ToggleOnlyStatus ==
    [][\A j \in JobIds :
          /\ Toggle(j, MaxToggles) =>
                /\ frames' = frames
                /\ DOMAIN jobs' = DOMAIN jobs
                /\ \A x \in DOMAIN jobs \ {j} : jobs'[x] = jobs[x]
                /\ jobs'[j] = [jobs[j] EXCEPT !.status = jobs'[j].status]
          /\ ActivateJob(j, MaxToggles) => jobs'[j].status = "pending"]_vars

\* C31 witness: job j1 has been excluded and activated again while one of its frames
\* is claimed and another completed, and job j2 is there, untouched.
C31_Witness ==
    /\ ops = 2
    /\ DOMAIN jobs = {"j1", "j2"}
    /\ jobs["j1"].status = "pending"
    /\ jobs["j2"].status = "pending"
    /\ \A k \in RowsOf(frames, "j2") : frames[k] = NewFrame
    /\ \E k \in RowsOf(frames, "j1") : frames[k].status = "claimed"
    /\ \E k \in RowsOf(frames, "j1") : frames[k].status = "completed"

\* C32: the stored priority of every job is an integer from 0 to 100.
C32_PriorityInRange ==
    \A j \in DOMAIN jobs : jobs[j].priority \in 0..100

\* min(worker_parallelism, ceil(pending / batch)), for pending >= 0
CeilParallelism(pending, batch) == Min(ParallelWorkers, (pending + batch - 1) \div batch)

\* C33: a worker enters the claim phase of an iteration, where it calls claim_frames,
\* only while its ranges in flight are fewer than min(worker_parallelism,
\* ceil(pending_frame_count(pool) / batch_size)), and it never has more than
\* worker_parallelism ranges in flight.
C33_EffectiveParallelism ==
    /\ [][\A w \in Workers :
              (pc[w] \in {"start", "drain"} /\ pc'[w] = "claim") =>
                  Len(futures[w]) <
                      CeilParallelism(get_pending_frame_count(frames', jobs, current_pool_id[w]),
                                      batch_size'[w])]_vars
    /\ [](\A w \in Workers : Len(futures[w]) <= ParallelWorkers)

\* C34: when claim_frames returns a range to worker w, every frame row of the range is
\* claimed by w with the time of the call, and no row outside the range becomes
\* assigned to w by the call.
C34_LockIn ==
    [][\A w \in Workers :
          Claimed(w) =>
              \A k \in DOMAIN frames' :
                  IF InRange(k, Returned(w))
                  THEN /\ frames'[k].status = "claimed"
                       /\ frames'[k].worker_id = w
                       /\ frames'[k].claimed_at = now
                  ELSE frames'[k].worker_id = w => frames[k] = frames'[k]]_vars

\* C35: complete_frames takes effect as one unit: when it writes the job status
\* completed, no frame of the job is other than completed, whatever reset_job,
\* release_frames, claim_frames or set_job_status calls other hosts make meanwhile.
C35_CompleteAtomic ==
    [][\A w \in Workers :
          CompleteStatus(w) =>
              \A k \in RowsOf(frames', cur[w].job_id) : frames'[k].status = "completed"]_vars

\* A converter started at claimed_at is still inside its timeout at time t: the
\* timeout of process_frame_range is max(BATCH_CLAIM_TIMEOUT_SEC, base_timeout), so
\* at least BATCH_CLAIM_TIMEOUT_SEC whatever the range.
WithinConverterTimeout(row, t) == t - row.claimed_at <= BATCH_CLAIM_TIMEOUT_SEC

\* C36: the claim timeout of the reclaim step is at least the converter's per-range
\* timeout, so a frame of a range that is in flight at worker w, claimed by w and
\* still inside the converter's timeout, is not taken from w by another worker's
\* claim_frames.
C36_TimeoutCoversConverter ==
    [][\A w \in Workers, w2 \in Workers :
          (w2 # w /\ Claimed(w2)) =>
              \A r \in InFlight(w) : \A k \in RowsIn(r) :
                  (/\ frames[k].status = "claimed"
                   /\ frames[k].worker_id = w
                   /\ WithinConverterTimeout(frames[k], now)) =>
                      /\ frames'[k].status = "claimed"
                      /\ frames'[k].worker_id = w]_vars

\* C37: a completed frame stays completed as long as neither reset_job nor delete_job
\* runs: no claim_frames, release_frames or complete_frames of any worker moves it
\* back to pending or claimed.
C37_CompletedStays ==
    [][\A k \in DOMAIN frames :
          frames[k].status = "completed" =>
              /\ k \in DOMAIN frames'
              /\ frames'[k].status = "completed"]_vars

\* C38: every frame row is consistent in itself: a pending frame has no assigned
\* worker and no claim time, and a claimed frame has an assigned worker and a claim
\* time.
C38_RowConsistent ==
    \A k \in DOMAIN frames :
        /\ frames[k].status = "pending" =>
              (frames[k].worker_id = NULL /\ frames[k].claimed_at = NoTime)
        /\ frames[k].status = "claimed" =>
              (frames[k].worker_id \in Workers /\ frames[k].claimed_at \in 0..MaxTime)

\* C38 witness: one frame is claimed while another is pending again after a worker
\* released it.
C38_Witness ==
    /\ \E k \in DOMAIN frames : frames[k].status = "claimed" /\ frames[k].worker_id \in Workers
    /\ \E k \in DOMAIN frames : frames[k].status = "pending" /\ frames[k].retry_count > 0

\* C39: the stored completed-frame counter of a worker never decreases while the
\* worker process runs, whichever heartbeat is sent: at a claim, periodic, idle, at
\* start or at stop.
C39_CounterMonotone ==
    [][\A w \in Workers :
          (alive[w] /\ alive'[w]) =>
              workers'[w].frames_completed >= workers[w].frames_completed]_vars

\* C40: for each job the job-completed signal, which starts the sequence scan and the
\* submission of a re-render job on the host that receives it, is emitted at most once
\* in total, over all workers and all interleavings.
C40_NotifyOnce == \A j \in DOMAIN job_completed_signal : job_completed_signal[j] <= 1

====
